---- MODULE Spec2Model ----
(***************************************************************************)
(* Model of the OpenTDF corpus builder                                     *)
(* (src/opentdf-mcp-pack/scripts/opentdf_corpus_builder.py):               *)
(*   - split_into_chunks, the paragraph-preferring chunker (SpecChunk);    *)
(*   - http_get under its tenacity retry decorator (SpecFetch);            *)
(*   - build_corpus, the docs / repos / releases / write pipeline          *)
(*     (SpecBuild).                                                        *)
(* A text is a sequence of one-character strings.  None is Python's None.  *)
(***************************************************************************)
EXTENDS Integers, Sequences, FiniteSets, TLC

VARIABLES
    \* one split_into_chunks call
    text, target_chars, hard_max, min_chars, chunks, cpc,
    \* one http_get call: the URL, the attempts made so far (each a response
    \* or a raised exception), where the call stands, what it returned or raised
    url, attempts, hpc, hresult,
    \* the waits the retry decorator has slept between the attempts, in time-units
    waits,
    \* one build_corpus run: the configuration, where the run stands, the
    \* doc URLs, repository names and release repositories still to process,
    \* the record list, whether a network fetch was made, the written output
    \* file, and the exception that ended the run
    cfg, bpc, doc_urls, names, rel_from, records, fetched, out_file, abort,
    \* the warnings build_corpus has printed to sys.stderr
    stderr,
    \* the attribution manifest build_corpus writes after the output file
    attribution_file,
    \* the repository loop of build_corpus taken step by step: the commit each
    \* default branch points to at GitHub (and whether a tree listing holds a
    \* null entry), the repository being ingested (license, branch, SHA, tree
    \* and the index of the next tree entry), and the raw files requested so far
    remote, ing, raw_requested,
    \* one clean_text call: the argument, the result, where the call stands
    ctext, cleaned, ctpc,
    \* one discover_doc_urls call: the documents the site serves, the
    \* arguments, the sitemap work queue and the sitemaps seen, the result set,
    \* the crawl queue and the pages visited, the URLs requested so far in
    \* order, where the call stands, and what it returned
    web, base, seeds, to_visit, seen_maps, found, dq, visited, requested, dpc,
    dresult

chunkVars == <<text, target_chars, hard_max, min_chars, chunks, cpc>>
fetchVars == <<url, attempts, hpc, hresult, waits>>
buildVars ==
    <<cfg, bpc, doc_urls, names, rel_from, records, fetched, out_file, abort,
      stderr, attribution_file>>
cleanVars == <<ctext, cleaned, ctpc>>
discVars ==
    <<web, base, seeds, to_visit, seen_maps, found, dq, visited, requested, dpc,
      dresult>>
repoVars == <<remote, ing, raw_requested>>
vars == <<chunkVars, fetchVars, buildVars, cleanVars, discVars, repoVars>>

None == "None"

----------------------------------------------------------------------------
(* Bounds of the chunker inputs *)

\* longest text drawn exhaustively
MaxLen == 5
\* largest hard_max for which the 3*hard_max+5 paragraph is drawn
MaxHardLong == 6
\* largest min_chars drawn
MaxMin == 2

\* most paragraphs of a text built from whole paragraphs
MaxParas == 3

NL == "\n"
SP == " "
TAB == "\t"
CR == "\r"

Min(a, b) == IF a <= b THEN a ELSE b

----------------------------------------------------------------------------
(* String helpers: str.strip, re.split(r'\n{2,}'), "\n\n".join *)

IsSpace(c) == c \in {SP, NL, TAB, CR}

RECURSIVE LStrip(_)
LStrip(s) ==
    IF s # <<>> /\ IsSpace(Head(s)) THEN LStrip(Tail(s)) ELSE s

RECURSIVE RStrip(_)
RStrip(s) ==
    IF s # <<>> /\ IsSpace(s[Len(s)]) THEN RStrip(SubSeq(s, 1, Len(s) - 1)) ELSE s

Strip(s) == RStrip(LStrip(s))

\* number of consecutive newlines of s starting at position i
RECURSIVE NlRun(_, _)
NlRun(s, i) ==
    IF i <= Len(s) /\ s[i] = NL THEN 1 + NlRun(s, i + 1) ELSE 0

\* re.split(r'\n{2,}', s) from position i on, cur being the piece in progress:
\* a maximal run of two or more newlines ends the piece.
RECURSIVE SplitFrom(_, _, _)
SplitFrom(s, i, cur) ==
    IF i > Len(s) THEN <<cur>>
    ELSE IF NlRun(s, i) >= 2
         THEN <<cur>> \o SplitFrom(s, i + NlRun(s, i), <<>>)
         ELSE SplitFrom(s, i + 1, Append(cur, s[i]))

SplitParas(s) == SplitFrom(s, 1, <<>>)

RECURSIVE Join(_)
Join(buf) ==
    IF buf = <<>> THEN <<>>
    ELSE IF Len(buf) = 1 THEN buf[1]
    ELSE buf[1] \o <<NL, NL>> \o Join(Tail(buf))

\* a slicing that loses the last character of every full slice
SlicesShort(p, h) ==
    [k \in 1..((Len(p) + h - 1) \div h) |->
        SubSeq(p, (k - 1) * h + 1, Min(k * h - 1, Len(p)))]

\* [p[i:i+hard_max] for i in range(0, len(p), hard_max)]
Slices(p, h) ==
    [k \in 1..((Len(p) + h - 1) \div h) |->
        SubSeq(p, (k - 1) * h + 1, Min(k * h, Len(p)))]

----------------------------------------------------------------------------
(* split_into_chunks *)

\* a keep test that keeps every flushed buffer
KeepFlushedAlways(chunk, cs, m) == TRUE

\* a keep test that forgets the "no chunk yet" case
KeepFlushedIfLong(chunk, cs, m) == Len(chunk) >= m

\* the test that keeps a flushed buffer as a chunk of its own
KeepFlushed(chunk, cs, m) == Len(chunk) >= m \/ cs = <<>>

\* the chunks after flushing a non-empty buffer before paragraph p
FlushBuf(st, m) ==
    IF st.buf # <<>> /\ KeepFlushed(Strip(Join(st.buf)), st.chunks, m)
    THEN Append(st.chunks, Strip(Join(st.buf)))
    ELSE st.chunks

\* whether paragraph p still fits the buffer's budget
FitsTarget(cur, p, t) == cur + Len(p) + 2 <= t

\* a test that never force-splits
NeverBrutalSplit(p, h) == FALSE

\* whether a paragraph that starts a buffer must be force-split
NeedsBrutalSplit(p, h) == Len(p) > h

\* one iteration of "for p in paras", on the loop state [chunks, buf, cur]
ParaStep(st, p, t, h, m) ==
    IF FitsTarget(st.cur, p, t)
    THEN [chunks |-> st.chunks, buf |-> Append(st.buf, p), cur |-> st.cur + Len(p) + 2]
    ELSE IF NeedsBrutalSplit(p, h)
         THEN [chunks |-> FlushBuf(st, m) \o Slices(p, h), buf |-> <<>>, cur |-> 0]
         ELSE [chunks |-> FlushBuf(st, m), buf |-> <<p>>, cur |-> Len(p)]

RECURSIVE ParaLoop(_, _, _, _, _)
ParaLoop(st, paras, t, h, m) ==
    IF paras = <<>> THEN st
    ELSE ParaLoop(ParaStep(st, Head(paras), t, h, m), Tail(paras), t, h, m)

\* an early return that misses the text of exactly hard_max characters
FitsHardMaxStrict(s, h) == Len(s) < h

\* the early return: the whole text fits hard_max
FitsHardMax(s, h) == Len(s) <= h

split_into_chunks(s, t, h, m) ==
    LET \* the final flush after the loop
        FinalFlush(st) ==
            IF st.buf # <<>> THEN Append(st.chunks, Strip(Join(st.buf))) ELSE st.chunks
    IN
    IF FitsHardMax(s, h) THEN <<s>>
    ELSE FinalFlush(ParaLoop([chunks |-> <<>>, buf |-> <<>>, cur |-> 0],
                             SplitParas(Strip(s)), t, h, m))

----------------------------------------------------------------------------
(* Inputs of the chunker specification *)

\* no split_into_chunks call is under way
IdleChunk ==
    /\ text = <<>>
    /\ target_chars = 0
    /\ hard_max = 0
    /\ min_chars = 0
    /\ chunks = None
    /\ cpc = "idle"

ChunkInputs ==
    LET Chars == {"a", SP, NL}
        Texts(n) == UNION {[1..k -> Chars] : k \in 0..n}
        \* a text of n characters "a", with character c at position k (k = 0: none)
        ParaWith(n, k, c) == [i \in 1..n |-> IF i = k THEN c ELSE "a"]
        \* texts of 3*h+5 characters without a run of two newlines
        LongParas(h) == {ParaWith(3 * h + 5, k, c) : k \in 0..(3 * h + 5), c \in {SP, NL}}
        \* the paragraphs of the texts built from whole paragraphs
        ParaSet == {<<"a">>, <<"a", "a">>, <<"a", SP>>}
        \* texts of up to MaxParas paragraphs separated by blank lines
        ParaTexts == {Join(ps) : ps \in UNION {[1..k -> ParaSet] : k \in 1..MaxParas}}
    IN
    /\ \/ /\ text \in Texts(MaxLen)
          /\ hard_max \in 1..MaxLen
          /\ target_chars \in 0..(MaxLen + 3)
       \/ /\ hard_max \in 1..MaxHardLong
          /\ text \in LongParas(hard_max)
          /\ target_chars \in 0..(3 * hard_max + 8)
       \/ /\ text \in ParaTexts
          /\ hard_max \in 1..MaxParas
          /\ target_chars \in 0..(2 * MaxParas + 2)
    /\ min_chars \in 0..MaxMin
    /\ chunks = None
    /\ cpc = "call"

\* the call returns
ChunkCall ==
    /\ cpc = "call"
    /\ chunks' = split_into_chunks(text, target_chars, hard_max, min_chars)
    /\ cpc' = "returned"
    /\ UNCHANGED <<text, target_chars, hard_max, min_chars>>
    /\ UNCHANGED <<fetchVars, buildVars, cleanVars, discVars, repoVars>>

----------------------------------------------------------------------------
(* http_get: requests.get under tenacity's retry decorator *)

\* stop_after_attempt(5)
MaxAttempts == 5

\* status codes a server answers with, on both sides of the test ">= 400"
Statuses == {200, 399, 400, 503}

\* exceptions requests.get raises for a network-level failure
NetworkErrors == {"ConnectionError", "Timeout"}

BadUrl == "opentdf.io robots.txt"

GetOutcomes(u) ==
    LET \* the exception requests.get raises for a URL it cannot parse
        InvalidURL == "InvalidURL"
        IsMalformed(x) == x = BadUrl
        \* what one requests.get(url) can do: answer with a status, or raise
        Response(st) == [kind |-> "response", status_code |-> st]
        Raised(e) == [kind |-> "exception", type |-> e]
    IN
    IF IsMalformed(u) THEN {Raised(InvalidURL)}
    ELSE {Response(st) : st \in Statuses} \cup {Raised(e) : e \in NetworkErrors}

\* raise HttpError(f"GET {url} -> {r.status_code}")
HttpError(u, st) ==
    [kind |-> "exception", type |-> "HttpError",
     message |-> "GET " \o u \o " -> " \o ToString(st)]

\* the body of http_get on one outcome of requests.get: a response below 400
\* is returned, a response from 400 on raises HttpError, an exception of
\* requests.get propagates out of the body
BodyResult(u, o) ==
    LET \* if r.status_code >= 400
        IsErrorStatus(st) == st >= 400
    IN
    IF o.kind = "response" /\ IsErrorStatus(o.status_code)
    THEN HttpError(u, o.status_code)
    ELSE o

\* retry=retry_if_exception_type(HttpError)
RetryIf(r) == r.kind = "exception" /\ r.type = "HttpError"

\* a stop condition that allows one attempt more
StopAfterOneMore(n) == n >= MaxAttempts + 1

\* stop=stop_after_attempt(5), n being the number of attempts made
StopAfterAttempt(n) == n >= MaxAttempts

\* a backoff that starts at twice the multiplier: multiplier * 2^n
wait_exponential_doubled(attempt_number) ==
    LET result == 2 ^ attempt_number
    IN  IF result < 10 THEN (IF result > 1 THEN result ELSE 1) ELSE 10

\* wait=wait_exponential(multiplier=1, min=1, max=10), called after attempt
\* attempt_number failed: max(max(0, min), min(multiplier * 2^(attempt_number - 1), max))
wait_exponential(attempt_number) ==
    LET multiplier == 1
        lo == 1
        hi == 10
        result == multiplier * 2 ^ (attempt_number - 1)
        capped == IF result < hi THEN result ELSE hi
    IN  IF capped > lo THEN capped ELSE lo

\* no http_get call is under way
IdleFetch ==
    /\ url = None
    /\ attempts = <<>>
    /\ hpc = "idle"
    /\ hresult = None
    /\ waits = <<>>

FetchInputs ==
    LET Urls == {"https://opentdf.io/robots.txt", "https://api.github.com/orgs/opentdf/repos", BadUrl}
    IN
    /\ url \in Urls
    /\ attempts = <<>>
    /\ hpc = "attempting"
    /\ hresult = None
    /\ waits = <<>>

\* an attempt whose body returns: the call returns that response
AttemptReturns ==
    /\ hpc = "attempting"
    /\ \E o \in GetOutcomes(url) :
        /\ BodyResult(url, o).kind = "response"
        /\ attempts' = Append(attempts, BodyResult(url, o))
        /\ hpc' = "returned"
        /\ hresult' = BodyResult(url, o)
    /\ UNCHANGED <<url, waits>>
    /\ UNCHANGED <<chunkVars, buildVars, cleanVars, discVars, repoVars>>

\* an attempt whose body raises an exception the retry predicate accepts:
\* RetryError once the stop condition holds, otherwise (after the wait)
\* another attempt
AttemptRetried ==
    LET \* tenacity's RetryError, raised when the stop condition ends the retries; it
        \* carries the last attempt
        RetryError(r) == [kind |-> "exception", type |-> "RetryError", last_attempt |-> r]
    IN
    /\ hpc = "attempting"
    /\ \E o \in GetOutcomes(url) :
        /\ BodyResult(url, o).kind = "exception"
        /\ RetryIf(BodyResult(url, o))
        /\ attempts' = Append(attempts, BodyResult(url, o))
        /\ IF StopAfterAttempt(Len(attempts) + 1)
           THEN /\ hpc' = "raised"
                /\ hresult' = RetryError(BodyResult(url, o))
                /\ waits' = waits
           ELSE /\ hpc' = "attempting"
                /\ hresult' = hresult
                /\ waits' = Append(waits, wait_exponential(Len(attempts) + 1))
    /\ UNCHANGED url
    /\ UNCHANGED <<chunkVars, buildVars, cleanVars, discVars, repoVars>>

\* an attempt whose body raises an exception the retry predicate rejects:
\* the exception propagates to the caller
AttemptPropagates ==
    /\ hpc = "attempting"
    /\ \E o \in GetOutcomes(url) :
        /\ BodyResult(url, o).kind = "exception"
        /\ ~RetryIf(BodyResult(url, o))
        /\ attempts' = Append(attempts, BodyResult(url, o))
        /\ hpc' = "raised"
        /\ hresult' = BodyResult(url, o)
    /\ UNCHANGED <<url, waits>>
    /\ UNCHANGED <<chunkVars, buildVars, cleanVars, discVars, repoVars>>

----------------------------------------------------------------------------
(* Helpers of build_corpus: clean_text, sha256_text, approx_tokens, paths *)

\* re.sub(r'\r\n?', '\n', s)
RECURSIVE CrToNl(_)
CrToNl(s) ==
    IF s = <<>> THEN <<>>
    ELSE IF Head(s) = CR
         THEN IF Len(s) >= 2 /\ s[2] = NL
              THEN <<NL>> \o CrToNl(SubSeq(s, 3, Len(s)))
              ELSE <<NL>> \o CrToNl(Tail(s))
         ELSE <<Head(s)>> \o CrToNl(Tail(s))

IsBlank(c) == c \in {SP, TAB}

\* re.sub(r'[ \t]+', ' ', s)
RECURSIVE CollapseBlanks(_)
CollapseBlanks(s) ==
    IF s = <<>> THEN <<>>
    ELSE IF IsBlank(Head(s))
         THEN IF Len(s) >= 2 /\ IsBlank(s[2])
              THEN CollapseBlanks(Tail(s))
              ELSE <<SP>> \o CollapseBlanks(Tail(s))
         ELSE <<Head(s)>> \o CollapseBlanks(Tail(s))

\* re.sub(r'\n{3,}', '\n\n', s)
RECURSIVE CollapseNl(_)
CollapseNl(s) ==
    IF s = <<>> THEN <<>>
    ELSE IF NlRun(s, 1) >= 3
         THEN <<NL, NL>> \o CollapseNl(SubSeq(s, NlRun(s, 1) + 1, Len(s)))
         ELSE <<Head(s)>> \o CollapseNl(Tail(s))

\* a normalisation that converts carriage returns after collapsing newlines
clean_text_cr_last(s) == Strip(CrToNl(CollapseNl(CollapseBlanks(s))))

clean_text(s) == Strip(CollapseNl(CollapseBlanks(CrToNl(s))))

\* the characters of the model's texts, names and paths; a character's code is
\* its place in this list
Alphabet ==
    <<"a", SP, NL, TAB, CR, "#", "P", ":", "d", "v", "1", "2", ".", "/",
      "R", "M", "D", "r", "m", "g", "o", "b", "i", "n", "s", "T", "t", "l", "e">>

Code(c) == CHOOSE i \in 1..Len(Alphabet) : Alphabet[i] = c

\* the Python str of a sequence of characters
RECURSIVE StrOf(_)
StrOf(s) == IF s = <<>> THEN "" ELSE Head(s) \o StrOf(Tail(s))

\* a digest of the characters of s, standing for
\* hashlib.sha256(s.encode("utf-8")).hexdigest()
RECURSIVE Digest(_, _)
Digest(h, s) ==
    IF s = <<>> THEN h ELSE Digest((h * 31 + Code(Head(s))) % 65521, Tail(s))

sha256_text(s) == Digest(7, s)

\* max(1, int(len(text) / 4))
approx_tokens(s) == IF Len(s) \div 4 >= 1 THEN Len(s) \div 4 ELSE 1

\* the last position of character c in s, 0 when there is none
LastIndex(s, c) ==
    IF \E j \in 1..Len(s) : s[j] = c
    THEN CHOOSE j \in 1..Len(s) : s[j] = c /\ \A k \in (j + 1)..Len(s) : s[k] # c
    ELSE 0

\* os.path.splitext(path)[1]: from the last dot of the last component on,
\* unless that component has only dots before it
SplitExt(path) ==
    LET sep == LastIndex(path, "/")
        dot == LastIndex(path, ".")
    IN  IF dot > sep /\ \E i \in (sep + 1)..(dot - 1) : path[i] # "."
        THEN SubSeq(path, dot, Len(path))
        ELSE <<>>

LowerChar(c) ==
    CASE c = "R" -> "r" [] c = "M" -> "m" [] c = "D" -> "d"
      [] c = "S" -> "s" [] c = "I" -> "i" [] c = "T" -> "t" [] c = "E" -> "e"
      [] c = "A" -> "a" [] c = "P" -> "p" [] OTHER -> c

\* str.lower
Lower(s) == [i \in 1..Len(s) |-> LowerChar(s[i])]

\* os.path.basename
BaseName(path) == SubSeq(path, LastIndex(path, "/") + 1, Len(path))

\* sha[:8]: a commit SHA is the pair of its first 8 characters and the rest
Sha8(sha) == sha[1]

----------------------------------------------------------------------------
(* The configuration and the remote world of a build_corpus run *)

\* most releases one repository's listing returns
MaxReleases == 2

\* max_bytes when the configuration gives none: int(... or 800000)
DefaultMaxBytes == 800000

Org == "opentdf"

\* page contents of at least 200 characters (the model's texts are scaled
\* down: the test "len(text) < 200" is drawn as the outcome "short")
DocOne == <<"a", "a", "a", "a", "a", "a">>

RepoA == "platform"
RepoB == "spec"

Licenses == {None, "MIT"}

\* the configuration; "missing" names the required key the file lacks
Config(missing, inc, exc, from, on) ==
    LET DocsBase == "https://opentdf.io"
        ChunkingCfg ==
            [target_chars |-> 10, code_target_chars |-> 8, hard_max_chars |-> 12, min_chars |-> 2]
        GithubCfg ==
            [org |-> Org, include_repos |-> inc, exclude_repos |-> exc,
             include_exts |-> {<<".", "m", "d">>, <<".", "g", "o">>},
             max_file_bytes |-> 0, exclude_path_globs |-> <<>>,
             releases |-> [include_from |-> from]]
        OutputCfg == [add_token_estimates |-> on, add_hash |-> on]
    IN
    [missing |-> missing,
     crawl |-> [docs_base |-> DocsBase, doc_seeds |-> <<"/introduction">>],
     chunking |-> ChunkingCfg,
     github |-> GithubCfg,
     output |-> OutputCfg]

Configs ==
    LET RequiredKeys == {"crawl", "chunking", "github", "releases", "output"}
    IN
    {Config(None, <<>>, {}, <<RepoA>>, TRUE),
     Config(None, <<RepoA, RepoA>>, {}, <<>>, TRUE),
     Config(None, <<RepoB, RepoA>>, {RepoA}, <<RepoB>>, FALSE)}
    \cup {Config(k, <<>>, {}, <<RepoA>>, TRUE) : k \in RequiredKeys}

\* cfg[key] raises KeyError
Lacks(key) == cfg.missing = key

----------------------------------------------------------------------------
(* Records *)

\* records put in front of the list instead of behind it
PrependRecords(recs, new) == new \o recs

\* records.append(rec), for the records of one parent document
AppendRecords(recs, new) == recs \o new

\* a hash of the parent's whole text instead of the chunk
RecordHashOfParent(cs, k) ==
    IF cfg.output.add_hash THEN sha256_text(Join(cs)) ELSE None

\* sha256_text(ch) if cfg["output"]["add_hash"] else None, ch being chunk k
RecordHash(cs, k) == IF cfg.output.add_hash THEN sha256_text(cs[k]) ELSE None

RecordTokens(ch) == IF cfg.output.add_token_estimates THEN approx_tokens(ch) ELSE None

\* an id suffix that counts the chunks from zero
ChunkIdFromZero(idx) == "::chunk-" \o ToString(idx)

ChunkId(idx) == "::chunk-" \o ToString(idx + 1)

DocsRecord(u, cs, k) ==
    [id |-> "docs::" \o u \o ChunkId(k - 1),
     source_type |-> "docs", title |-> "Title", section |-> None,
     url |-> u, repo |-> None, path |-> None, commit |-> None,
     license |-> "CC-BY-SA-4.0", version |-> None,
     attribution |-> "OpenTDF Documentation (opentdf/docs) - CC-BY-SA-4.0",
     content |-> cs[k], content_type |-> "text",
     chunk_index |-> k - 1, chunk_count |-> Len(cs),
     approx_tokens |-> RecordTokens(cs[k]), hash |-> RecordHash(cs, k)]

RepoRecord(name, path, sha, lic, cs, k) ==
    [id |-> "repo::" \o name \o "::" \o StrOf(path) \o "::" \o Sha8(sha) \o ChunkId(k - 1),
     source_type |-> "repo", title |-> StrOf(BaseName(path)), section |-> None,
     url |-> None, repo |-> cfg.github.org \o "/" \o name, path |-> StrOf(path),
     commit |-> sha, license |-> lic, version |-> None,
     attribution |-> "Source: github.com/" \o cfg.github.org \o "/" \o name \o " ("
                     \o (IF lic # None THEN lic ELSE "unknown license") \o ")",
     content |-> cs[k],
     content_type |-> IF StrOf(Lower(SplitExt(path))) \in {".md", ".mdx"}
                      THEN "markdown" ELSE "code",
     chunk_index |-> k - 1, chunk_count |-> Len(cs),
     approx_tokens |-> RecordTokens(cs[k]), hash |-> RecordHash(cs, k)]

ReleaseRecord(repo_name, name, rel, lic, cs, k) ==
    [id |-> "release::" \o repo_name \o "::" \o StrOf(name) \o ChunkId(k - 1),
     source_type |-> "release", title |-> StrOf(name), section |-> repo_name,
     url |-> rel.html_url, repo |-> cfg.github.org \o "/" \o repo_name,
     path |-> None, commit |-> None, license |-> lic, version |-> StrOf(name),
     attribution |-> "Release notes: github.com/" \o cfg.github.org \o "/" \o repo_name,
     content |-> cs[k], content_type |-> "text",
     chunk_index |-> k - 1, chunk_count |-> Len(cs),
     approx_tokens |-> RecordTokens(cs[k]), hash |-> RecordHash(cs, k)]

\* print(f"[warn] {what} failed: {about} -> {e}", file=sys.stderr) in the except
\* clause of an iteration, reached when the try block raised
Warned(log, what, about, raised) ==
    IF raised THEN Append(log, [warn |-> what \o " failed", about |-> about]) ELSE log

\* the chunks of a text under the configuration, with the given target
ChunksOf(s, target) ==
    split_into_chunks(s, target, cfg.chunking.hard_max_chars, cfg.chunking.min_chars)

\* the records of one docs page: none when the page is too short, or when
\* reading cfg["chunking"] or cfg["output"] raises KeyError inside the try
DocsRecords(u, page) ==
    IF page.kind \in {"HttpError", "short"} \/ Lacks("chunking") \/ Lacks("output")
    THEN <<>>
    ELSE LET cs == ChunksOf(page.content, cfg.chunking.target_chars)
         IN  [k \in 1..Len(cs) |-> DocsRecord(u, cs, k)]

\* rx = re.escape(pat).replace(r"\*\*", ".*").replace(r"\*", "[^/]*"), as the
\* pieces of the regular expression: "**" stands for ".*", "*" for "[^/]*" and
\* any other character for itself, escaped
RECURSIVE GlobRegex(_)
GlobRegex(pat) ==
    IF pat = <<>> THEN <<>>
    ELSE IF Len(pat) >= 2 /\ pat[1] = "*" /\ pat[2] = "*"
         THEN <<"**">> \o GlobRegex(SubSeq(pat, 3, Len(pat)))
         ELSE <<pat[1]>> \o GlobRegex(Tail(pat))

\* re.fullmatch(rx, path): "." matches any character but a newline, "[^/]"
\* any character but a slash
RECURSIVE FullMatch(_, _)
FullMatch(rx, path) ==
    IF rx = <<>> THEN path = <<>>
    ELSE IF Head(rx) = "**"
         THEN \E k \in 0..Len(path) :
                  /\ \A j \in 1..k : path[j] # NL
                  /\ FullMatch(Tail(rx), SubSeq(path, k + 1, Len(path)))
    ELSE IF Head(rx) = "*"
         THEN \E k \in 0..Len(path) :
                  /\ \A j \in 1..k : path[j] # "/"
                  /\ FullMatch(Tail(rx), SubSeq(path, k + 1, Len(path)))
    ELSE path # <<>> /\ Head(path) = Head(rx) /\ FullMatch(Tail(rx), Tail(path))

\* the filters a tree entry passes before its content is fetched
\* int(cfg["github"]["max_file_bytes"] or 800000)
MaxBytes == IF cfg.github.max_file_bytes # 0 THEN cfg.github.max_file_bytes
            ELSE DefaultMaxBytes
NodeFetched(node) ==
    LET \* node.get("size") or 0
        NodeSize == IF "size" \in DOMAIN node THEN node.size ELSE 0
    IN
    /\ node.type = "blob"
    /\ cfg.github.include_exts # {} => Lower(SplitExt(node.path)) \in cfg.github.include_exts
    /\ ~(NodeSize # 0 /\ NodeSize > MaxBytes)
    /\ ~\E k \in 1..Len(cfg.github.exclude_path_globs) :
            FullMatch(GlobRegex(cfg.github.exclude_path_globs[k]), node.path)

\* the records of one tree entry whose raw content is raw
NodeRecords(name, node, sha, lic, raw) ==
    IF raw.kind = "HttpError" \/ raw.content = <<>>
    THEN <<>>
    ELSE LET cs == ChunksOf(clean_text(raw.content), cfg.chunking.code_target_chars)
         IN  [k \in 1..Len(cs) |-> RepoRecord(name, node.path, sha, lic, cs, k)]

\* the records of a repository's tree, raws[i] being what get_raw_file gives
\* for entry i when it is fetched
RECURSIVE TreeRecords(_, _, _, _, _, _)
TreeRecords(name, tree, i, sha, lic, raws) ==
    IF i > Len(tree) THEN <<>>
    ELSE (IF NodeFetched(tree[i])
          THEN NodeRecords(name, tree[i], sha, lic, raws[i])
          ELSE <<>>)
            \o TreeRecords(name, tree, i + 1, sha, lic, raws)

\* name = rel.get("name") or rel.get("tag_name")
ReleaseName(rel) == IF rel.name # <<>> THEN rel.name ELSE rel.tag_name

\* f"# {name}\n\nPublished: {published_at}\n\n{body}"
ReleaseText(name, rel) ==
    LET PublishedAt == <<"d">>
    IN
    <<"#", SP>> \o name \o <<NL, NL>> \o <<"P", ":", SP>> \o PublishedAt
        \o <<NL, NL>> \o rel.body

\* the records of the releases of one listing, in order; a release without a
\* name is skipped
RECURSIVE ReleaseRecords(_, _, _)
ReleaseRecords(repo_name, rels, lic) ==
    IF rels = <<>> THEN <<>>
    ELSE LET rel == Head(rels)
             name == ReleaseName(rel)
             cs == ChunksOf(ReleaseText(name, rel), cfg.chunking.target_chars)
         IN  (IF name = <<>> THEN <<>>
              ELSE [k \in 1..Len(cs) |-> ReleaseRecord(repo_name, name, rel, lic, cs, k)])
                \o ReleaseRecords(repo_name, Tail(rels), lic)

\* names = [n for n in include if n not in exclude]
RECURSIVE Without(_, _)
Without(seq, exc) ==
    IF seq = <<>> THEN <<>>
    ELSE (IF Head(seq) \in exc THEN <<>> ELSE <<Head(seq)>>) \o Without(Tail(seq), exc)

\* every attribution string a run of the model can produce, in the order of
\* Python's string comparison
AttributionOrder ==
    <<"OpenTDF Documentation (opentdf/docs) - CC-BY-SA-4.0",
      "Release notes: github.com/" \o Org \o "/" \o RepoA,
      "Release notes: github.com/" \o Org \o "/" \o RepoB,
      "Source: github.com/" \o Org \o "/" \o RepoA \o " (MIT)",
      "Source: github.com/" \o Org \o "/" \o RepoA \o " (unknown license)",
      "Source: github.com/" \o Org \o "/" \o RepoB \o " (MIT)",
      "Source: github.com/" \o Org \o "/" \o RepoB \o " (unknown license)">>

\* the place of a string in Python's string order
StrOrd(a) == CHOOSE i \in 1..Len(AttributionOrder) : AttributionOrder[i] = a

\* the loop over the records: a truthy attribution not seen yet is appended
RECURSIVE AtLines(_, _)
AtLines(recs, seen_attr) ==
    IF recs = <<>> THEN <<>>
    ELSE LET a == Head(recs).attribution
         IN  IF a # None /\ a # "" /\ a \notin seen_attr
             THEN <<a>> \o AtLines(Tail(recs), seen_attr \cup {a})
             ELSE AtLines(Tail(recs), seen_attr)

\* a "sort" that leaves the list in order of first appearance
unsorted(lines) == lines

\* sorted(at_lines)
sorted(lines) ==
    LET n == Len(lines)
        \* the number of elements that sort before element i
        before(i) ==
            Cardinality({j \in 1..n :
                \/ StrOrd(lines[j]) < StrOrd(lines[i])
                \/ StrOrd(lines[j]) = StrOrd(lines[i]) /\ j < i})
    IN  [k \in 1..n |-> lines[CHOOSE i \in 1..n : before(i) = k - 1]]

\* "\n".join(lines) + "\n", as the pieces written: strings and newlines
RECURSIVE JoinNl(_)
JoinNl(lines) ==
    IF lines = <<>> THEN <<>>
    ELSE IF Len(lines) = 1 THEN <<lines[1]>>
    ELSE <<lines[1], NL>> \o JoinNl(Tail(lines))

ManifestText(lines) == JoinNl(lines) \o <<NL>>

----------------------------------------------------------------------------
(* build_corpus *)

IdleBuild ==
    /\ attribution_file = None
    /\ cfg = None
    /\ bpc = "idle"
    /\ doc_urls = <<>>
    /\ names = <<>>
    /\ rel_from = <<>>
    /\ records = <<>>
    /\ fetched = FALSE
    /\ out_file = [written |-> FALSE, lines |-> <<>>]
    /\ abort = None
    /\ stderr = <<>>

BuildInputs ==
    /\ attribution_file = None
    /\ cfg \in Configs
    /\ bpc = "start"
    /\ doc_urls = <<>>
    /\ names = <<>>
    /\ rel_from = <<>>
    /\ records = <<>>
    /\ fetched = FALSE
    /\ out_file = [written |-> FALSE, lines |-> <<>>]
    /\ abort = None
    /\ stderr = <<>>

\* cfg["crawl"] raises KeyError before anything else is done
CrawlKeyError ==
    /\ bpc = "start"
    /\ Lacks("crawl")
    /\ bpc' = "aborted"
    /\ abort' = "KeyError"
    /\ UNCHANGED <<cfg, stderr, doc_urls, names, rel_from, records, fetched, out_file>>
    /\ UNCHANGED <<attribution_file, chunkVars, fetchVars, cleanVars, discVars, repoVars>>

\* discover_doc_urls: robots.txt and the sitemaps are fetched (every failure
\* is swallowed) and a sorted list of URLs comes back
DiscoverDocs ==
    LET DocA == "https://opentdf.io/introduction"
        DocB == "https://opentdf.io/spec"
        \* what discover_doc_urls can return: a sorted list without duplicates
        DocUrlLists == {<<>>, <<DocA>>, <<DocA, DocB>>}
    IN
    /\ bpc = "start"
    /\ ~Lacks("crawl")
    /\ \E urls \in DocUrlLists : doc_urls' = urls
    /\ fetched' = TRUE
    /\ bpc' = "docs"
    /\ UNCHANGED <<cfg, stderr, names, rel_from, records, out_file, abort>>
    /\ UNCHANGED <<attribution_file, chunkVars, fetchVars, cleanVars, discVars, repoVars>>

\* one iteration of "for u in doc_urls": fetch, extract, chunk, append; any
\* exception is caught and the page skipped
DocPage ==
    LET DocTwo == DocOne \o <<NL, NL>> \o DocOne
        \* what extract_doc_page does for a page: raise, or return its content
        PageOutcomes ==
            {[kind |-> "HttpError"], [kind |-> "short"]}
                \cup {[kind |-> "page", content |-> c] : c \in {DocOne, DocTwo}}
    IN
    /\ bpc = "docs"
    /\ doc_urls # <<>>
    /\ \E page \in PageOutcomes :
        /\ records' = AppendRecords(records, DocsRecords(Head(doc_urls), page))
        /\ stderr' = Warned(stderr, "docs extract", Head(doc_urls),
                \/ page.kind = "HttpError"
                \/ page.kind = "page" /\ (Lacks("chunking") \/ Lacks("output")))
    /\ doc_urls' = Tail(doc_urls)
    /\ UNCHANGED <<cfg, bpc, names, rel_from, fetched, out_file, abort>>
    /\ UNCHANGED <<attribution_file, chunkVars, fetchVars, cleanVars, discVars, repoVars>>

\* cfg["github"] raises KeyError after the docs phase
GithubKeyError ==
    /\ bpc = "docs"
    /\ doc_urls = <<>>
    /\ Lacks("github")
    /\ bpc' = "aborted"
    /\ abort' = "KeyError"
    /\ UNCHANGED <<cfg, stderr, doc_urls, names, rel_from, records, fetched, out_file>>
    /\ UNCHANGED <<attribution_file, chunkVars, fetchVars, cleanVars, discVars, repoVars>>

\* list_org_repos answers: the names to ingest are computed
ListOrgRepos ==
    LET \* the names the organization's repository listing returns
        RepoListing == <<RepoB>>
        \* include = cfg["github"]["include_repos"] or names
        RepoNames(listing) ==
            Without(IF cfg.github.include_repos # <<>> THEN cfg.github.include_repos ELSE listing,
                    cfg.github.exclude_repos)
    IN
    /\ bpc = "docs"
    /\ doc_urls = <<>>
    /\ ~Lacks("github")
    /\ names' = RepoNames(RepoListing)
    /\ bpc' = "repos"
    /\ UNCHANGED <<cfg, stderr, doc_urls, rel_from, records, fetched, out_file, abort>>
    /\ UNCHANGED <<attribution_file, chunkVars, fetchVars, cleanVars, discVars, repoVars>>

\* list_org_repos fails: http_get's exception leaves build_corpus, no try
\* surrounds the call
ListOrgReposFails ==
    /\ bpc = "docs"
    /\ doc_urls = <<>>
    /\ ~Lacks("github")
    /\ bpc' = "aborted"
    /\ abort' = "RetryError"
    /\ UNCHANGED <<cfg, stderr, doc_urls, names, rel_from, records, fetched, out_file>>
    /\ UNCHANGED <<attribution_file, chunkVars, fetchVars, cleanVars, discVars, repoVars>>

\* one iteration of "for name in names" that ends in the except clause: the
\* branch, SHA or tree fetch fails, or cfg["chunking"] / cfg["output"] raises
\* KeyError at the first file that reaches the chunker
RepoIngestFails ==
    /\ bpc = "repos"
    /\ names # <<>>
    /\ names' = Tail(names)
    /\ stderr' = Warned(stderr, "repo ingest", Head(names), TRUE)
    /\ UNCHANGED <<cfg, bpc, doc_urls, rel_from, records, fetched, out_file, abort>>
    /\ UNCHANGED <<attribution_file, chunkVars, fetchVars, cleanVars, discVars, repoVars>>

\* one iteration of "for name in names" that runs through: license, branch
\* and SHA, tree, then every tree entry in turn
RepoIngest ==
    LET \* commit SHAs of a default branch: two of them share their first 8 characters
        Shas == {<<"0a1b2c3d", "e4f5">>, <<"0a1b2c3d", "9876">>, <<"77aa88bb", "e4f5">>}
        ReadmePath == <<"R", ".", "M", "D">>
        \* the recursive tree of a repository: a directory, a markdown file, a file
        \* over the size ceiling and a file whose extension is not included
        RepoTree ==
            << [type |-> "tree", path |-> <<"s">>],
               [type |-> "blob", path |-> ReadmePath, size |-> 120],
               [type |-> "blob", path |-> <<"s", "/", "m", ".", "g", "o">>, size |-> 900000],
               [type |-> "blob", path |-> <<"b", ".", "b", "i", "n">>, size |-> 10] >>
        \* raw file contents get_raw_file can return, or the exception it raises
        RawOne == <<SP, "a", "a", "a", TAB, SP, "a", "a", CR, NL>>
        RawTwo == DocOne \o <<CR, NL, CR, NL, CR, NL>> \o DocOne
        RawOutcomes ==
            {[kind |-> "HttpError"]}
                \cup {[kind |-> "text", content |-> c] : c \in {<<>>, RawOne, RawTwo}}
    IN
    /\ bpc = "repos"
    /\ names # <<>>
    /\ ~Lacks("chunking")
    /\ ~Lacks("output")
    /\ \E lic \in Licenses, sha \in Shas :
        \E raws \in [{i \in 1..Len(RepoTree) : NodeFetched(RepoTree[i])} -> RawOutcomes] :
            records' = AppendRecords(records,
                TreeRecords(Head(names), RepoTree, 1, sha, lic, raws))
    /\ names' = Tail(names)
    /\ UNCHANGED <<cfg, stderr, bpc, doc_urls, rel_from, fetched, out_file, abort>>
    /\ UNCHANGED <<attribution_file, chunkVars, fetchVars, cleanVars, discVars, repoVars>>

\* cfg["github"]["releases"] raises KeyError after the repository phase
ReleasesKeyError ==
    /\ bpc = "repos"
    /\ names = <<>>
    /\ Lacks("releases")
    /\ bpc' = "aborted"
    /\ abort' = "KeyError"
    /\ UNCHANGED <<cfg, stderr, doc_urls, names, rel_from, records, fetched, out_file>>
    /\ UNCHANGED <<attribution_file, chunkVars, fetchVars, cleanVars, discVars, repoVars>>

\* the release phase starts with the configured repositories
ReleasesStart ==
    /\ bpc = "repos"
    /\ names = <<>>
    /\ ~Lacks("releases")
    /\ rel_from' = cfg.github.releases.include_from
    /\ bpc' = "releases"
    /\ UNCHANGED <<cfg, stderr, doc_urls, names, records, fetched, out_file, abort>>
    /\ UNCHANGED <<attribution_file, chunkVars, fetchVars, cleanVars, discVars, repoVars>>

\* one iteration of "for repo_name in include_from": the pages of the
\* releases listing are read until an empty page or until a fetch fails (the
\* exception is caught); the releases read until then give their records.
\* With cfg["chunking"] or cfg["output"] missing the first named release
\* raises KeyError and nothing is appended.
ReleaseRepo ==
    LET \* releases a listing can return: named, named by its tag only, unnamed
        RelNamed == [name |-> <<"v", "1">>, tag_name |-> <<"v", "1", ".", "1">>,
                     body |-> <<>>, html_url |-> "https://github.com/opentdf/r/v1.1"]
        RelTagged == [name |-> <<>>, tag_name |-> <<"v", "1">>,
                      body |-> <<"a", "a", "a">>, html_url |-> "https://github.com/opentdf/r/v1"]
        RelUnnamed == [name |-> <<>>, tag_name |-> <<>>,
                       body |-> <<"a">>, html_url |-> "https://github.com/opentdf/r/untagged"]
        Releases == {RelNamed, RelTagged, RelUnnamed}
        ReleaseLists == UNION {[1..k -> Releases] : k \in 0..MaxReleases}
    IN
    /\ bpc = "releases"
    /\ rel_from # <<>>
    /\ \E rels \in ReleaseLists, lic \in Licenses, raised \in BOOLEAN :
        /\ (Lacks("chunking") \/ Lacks("output"))
                /\ (\E i \in 1..Len(rels) : ReleaseName(rels[i]) # <<>>) => raised
        /\ records' = AppendRecords(records,
                IF Lacks("chunking") \/ Lacks("output") THEN <<>>
                ELSE ReleaseRecords(Head(rel_from), rels, lic))
        /\ stderr' = Warned(stderr, "releases ingest", Head(rel_from), raised)
    /\ rel_from' = Tail(rel_from)
    /\ UNCHANGED <<cfg, bpc, doc_urls, names, fetched, out_file, abort>>
    /\ UNCHANGED <<attribution_file, chunkVars, fetchVars, cleanVars, discVars, repoVars>>

\* write_jsonl(out_path, records)
WriteOutput ==
    /\ bpc = "releases"
    /\ rel_from = <<>>
    /\ out_file' = [written |-> TRUE, lines |-> records]
    /\ bpc' = "attribution"
    /\ UNCHANGED <<cfg, stderr, doc_urls, names, rel_from, records, fetched, abort>>
    /\ UNCHANGED <<attribution_file, chunkVars, fetchVars, cleanVars, discVars, repoVars>>

\* write_jsonl fails: open or write raises OSError
WriteFails ==
    /\ bpc = "releases"
    /\ rel_from = <<>>
    /\ bpc' = "aborted"
    /\ abort' = "OSError"
    /\ UNCHANGED <<cfg, stderr, doc_urls, names, rel_from, records, fetched, out_file>>
    /\ UNCHANGED <<attribution_file, chunkVars, fetchVars, cleanVars, discVars, repoVars>>

\* the attribution roll-up: the distinct non-empty attributions in order of
\* first appearance, sorted, joined by newlines and ended by a newline
WriteAttribution ==
    /\ bpc = "attribution"
    /\ attribution_file' = ManifestText(sorted(AtLines(records, {})))
    /\ bpc' = "done"
    /\ UNCHANGED <<cfg, stderr, doc_urls, names, rel_from, records, fetched, out_file, abort>>
    /\ UNCHANGED <<chunkVars, fetchVars, cleanVars, discVars, repoVars>>

\* open("ATTRIBUTION.txt", "w") or the write raises OSError
AttributionFails ==
    /\ bpc = "attribution"
    /\ bpc' = "aborted"
    /\ abort' = "OSError"
    /\ UNCHANGED <<cfg, stderr, doc_urls, names, rel_from, records, fetched, out_file>>
    /\ UNCHANGED <<attribution_file, chunkVars, fetchVars, cleanVars, discVars, repoVars>>

----------------------------------------------------------------------------
(* clean_text as a call *)

\* longest argument drawn character by character
MaxCleanLen == 4
\* most lines of an argument drawn line by line
MaxLines == 5

RECURSIVE JoinLines(_, _)
JoinLines(ls, eol) ==
    IF Len(ls) = 1 THEN ls[1] ELSE ls[1] \o eol \o JoinLines(Tail(ls), eol)

\* no clean_text call is under way
IdleClean ==
    /\ ctext = <<>>
    /\ cleaned = <<>>
    /\ ctpc = "idle"

CleanInputs ==
    LET CleanChars == {"a", SP, NL, TAB, CR}
        \* the lines of the arguments drawn line by line, and their line ends
        LineSet == {<<>>, <<"a">>, <<SP>>, <<TAB>>}
        Eols == {<<NL>>, <<CR, NL>>, <<CR>>}
        CleanTexts ==
            UNION {[1..k -> CleanChars] : k \in 0..MaxCleanLen}
                \cup {JoinLines(ls, eol) :
                        ls \in UNION {[1..k -> LineSet] : k \in 1..MaxLines}, eol \in Eols}
    IN
    /\ ctext \in CleanTexts
    /\ cleaned = <<>>
    /\ ctpc = "call"

\* the call returns
CleanCall ==
    /\ ctpc = "call"
    /\ cleaned' = clean_text(ctext)
    /\ ctpc' = "returned"
    /\ UNCHANGED ctext
    /\ UNCHANGED <<chunkVars, fetchVars, buildVars, discVars, repoVars>>

----------------------------------------------------------------------------
(* discover_doc_urls *)

(* URLs, robots.txt lines and hrefs are sequences of characters *)

\* str.startswith, str.endswith, "p in s"
StartsWith(s, p) == Len(p) <= Len(s) /\ SubSeq(s, 1, Len(p)) = p

\* base.rstrip("/")
RECURSIVE RStripSlash(_)
RStripSlash(s) ==
    IF s # <<>> /\ s[Len(s)] = "/" THEN RStripSlash(SubSeq(s, 1, Len(s) - 1)) ELSE s

\* the first position of character c in s from position i on, 0 when none
IndexFrom(s, c, i) ==
    IF \E j \in i..Len(s) : s[j] = c
    THEN CHOOSE j \in i..Len(s) : s[j] = c /\ \A k \in i..(j - 1) : s[k] # c
    ELSE 0

\* whether a reference starts with a scheme ("https:")
HasScheme(u) ==
    LET k == IndexFrom(u, ":", 1)
    IN  k > 1 /\ \A j \in 1..(k - 1) : u[j] \notin {"/", "#", "?"}

\* where the path of an absolute URL starts, 0 when it has no path
PathStart(u) ==
    CHOOSE p \in {IndexFrom(u, "/", colon + 3) : colon \in {IndexFrom(u, ":", 1)}} : TRUE

\* uritools.urijoin(b, ref) for references without dot segments or query
urijoin(b, ref) ==
    LET \* scheme and authority of an absolute URL whose path starts at ps, and its path
        Origin(u, ps) == IF ps = 0 THEN u ELSE SubSeq(u, 1, ps - 1)
        PathOf(u, ps) == IF ps = 0 THEN <<>> ELSE SubSeq(u, ps, Len(u))
        \* the path up to its last slash, which a relative reference is merged with
        MergeDir(path) ==
            IF path = <<>> THEN <<"/">> ELSE SubSeq(path, 1, LastIndex(path, "/"))
    IN
    IF HasScheme(ref) THEN ref
    ELSE IF ref = <<>> THEN b
    ELSE CHOOSE joined \in
             {IF Head(ref) = "/" THEN Origin(b, ps) \o ref
              ELSE Origin(b, ps) \o MergeDir(PathOf(b, ps)) \o ref :
                  ps \in {PathStart(b)}} : TRUE

SITEMAP_CANDIDATES ==
    <<<<"/", "s", "i", "t", "e", "m", "a", "p", ".", "x", "m", "l">>,
      <<"/", "s", "i", "t", "e", "m", "a", "p", "_", "i", "n", "d", "e", "x", ".", "x", "m", "l">>,
      <<"/", "s", "i", "t", "e", "m", "a", "p", "-", "i", "n", "d", "e", "x", ".", "x", "m", "l">>,
      <<"/", "s", "i", "t", "e", "m", "a", "p", ".", "x", "m", "l", ".", "g", "z">>,
      <<"/", "s", "i", "t", "e", "m", "a", "p", "_", "i", "n", "d", "e", "x", ".", "x", "m", "l", ".", "g", "z">>,
      <<"/", "s", "i", "t", "e", "m", "a", "p", "-", "i", "n", "d", "e", "x", ".", "x", "m", "l", ".", "g", "z">>>>

DOC_SECTION_HINTS ==
    <<<<"/", "i", "n", "t", "r", "o", "d", "u", "c", "t", "i", "o", "n">>,
      <<"/", "g", "e", "t", "t", "i", "n", "g", "-", "s", "t", "a", "r", "t", "e", "d">>,
      <<"/", "a", "r", "c", "h", "i", "t", "e", "c", "t", "u", "r", "e">>,
      <<"/", "c", "a", "t", "e", "g", "o", "r", "y", "/", "c", "o", "m", "p", "o", "n", "e", "n", "t", "s", "-", "a", "n", "d", "-", "s", "e", "r", "v", "i", "c", "e", "s">>,
      <<"/", "c", "o", "m", "p", "o", "n", "e", "n", "t", "s">>,
      <<"/", "s", "d", "k", "s">>,
      <<"/", "O", "p", "e", "n", "A", "P", "I", "-", "c", "l", "i", "e", "n", "t", "s">>,
      <<"/", "s", "p", "e", "c">>,
      <<"/", "a", "p", "p", "e", "n", "d", "i", "x">>,
      <<"/", "r", "e", "l", "e", "a", "s", "e", "-", "n", "o", "t", "e", "s">>>>

\* an allowlist test that looks at the base URL only
is_docs_url_any_section(u, b) == StartsWith(u, b)

\* _is_docs_url
is_docs_url(u, b) ==
    LET Contains(s, p) == \E i \in 1..(Len(s) - Len(p) + 1) : SubSeq(s, i, i + Len(p) - 1) = p
    IN
    \E page \in {u} :
        /\ StartsWith(page, b)
        /\ \E i \in 1..Len(DOC_SECTION_HINTS) : Contains(page, DOC_SECTION_HINTS[i])

\* Python's a < b on strings
RECURSIVE StrLess(_, _)
StrLess(a, b) ==
    LET \* the characters of URLs in the order of their code points
        AsciiOrder ==
            <<" ", "#", "*", "-", ".", "/", "0", "1", "2", "3", "4", "5", "6", "7", "8", "9",
              ":", "A", "B", "C", "D", "E", "F", "G", "H", "I", "J", "K", "L", "M", "N", "O",
              "P", "Q", "R", "S", "T", "U", "V", "W", "X", "Y", "Z", "_", "a", "b", "c", "d",
              "e", "f", "g", "h", "i", "j", "k", "l", "m", "n", "o", "p", "q", "r", "s", "t",
              "u", "v", "w", "x", "y", "z">>
        ord(c) == CHOOSE i \in 1..Len(AsciiOrder) : AsciiOrder[i] = c
    IN
    IF b = <<>> THEN FALSE
    ELSE IF a = <<>> THEN TRUE
    ELSE IF Head(a) = Head(b) THEN StrLess(Tail(a), Tail(b))
    ELSE ord(Head(a)) < ord(Head(b))

\* a listing of the set that is not sorted: largest first
listed(set) ==
    [k \in 1..Cardinality(set) |->
        CHOOSE u \in set : Cardinality({v \in set : StrLess(u, v)}) = k - 1]

\* sorted(found)
sorted_urls(set) ==
    [k \in 1..Cardinality(set) |->
        CHOOSE u \in set : Cardinality({v \in set : StrLess(v, u)}) = k - 1]

\* list(dict.fromkeys(urls)): first occurrences, in order
RECURSIVE Dedupe(_, _)
Dedupe(urls, seen) ==
    IF urls = <<>> THEN <<>>
    ELSE IF Head(urls) \in seen THEN Dedupe(Tail(urls), seen)
    ELSE <<Head(urls)>> \o Dedupe(Tail(urls), seen \cup {Head(urls)})

----------------------------------------------------------------------------
(* The documentation site of a discover_doc_urls call *)

\* lengths of the end-to-end docs scenario are divided by Scale: a page of
\* 3000 filler characters chunked with target 1000, hard maximum 1200 and
\* minimum 100 is drawn as 30 characters with 10, 12 and 1, and the 200
\* characters below which a page is skipped as 2
Scale == 100

Https == <<"h", "t", "t", "p", "s", ":", "/", "/">>
BaseUrl == Https \o <<"o", "p", "e", "n", "t", "d", "f", ".", "i", "o">>
RootMap == BaseUrl \o <<"/", "s", "i", "t", "e", "m", "a", "p", ".", "x", "m", "l">>
NestedMap == BaseUrl \o <<"/", "a", ".", "x", "m", "l">>
IntroUrl == BaseUrl \o <<"/", "i", "n", "t", "r", "o", "d", "u", "c", "t", "i", "o", "n">>
SpecUrl == BaseUrl \o <<"/", "s", "p", "e", "c">>
BlogUrl == BaseUrl \o <<"/", "b", "l", "o", "g">>

FetchFails == [kind |-> "fail"]
Xml(locs) == [kind |-> "xml", locs |-> locs]
\* a page: its h1, one paragraph of n filler characters, its hrefs
Html(h1, n, hrefs) == [kind |-> "html", h1 |-> h1, filler |-> n, hrefs |-> hrefs]

Title == <<"T", "i", "t", "l", "e">>

\* the site: robots.txt and what every URL serves (a URL that serves a
\* failure answers 404 or cannot be reached)
Webs ==
    LET ElsewhereUrl == Https \o <<"x", ".", "i", "o", "/", "s", "p", "e", "c">>
        Malformed == [kind |-> "malformed"]
        \* what GET robots.txt gives: a failure, or the lines of the file
        RobotsOptions ==
            {FetchFails,
             [kind |-> "text", lines |-> <<<<"U", "s", "e", "r", "-", "a", "g", "e", "n", "t", ":", " ", "*">>>>],
             [kind |-> "text", lines |-> <<<<"U", "s", "e", "r", "-", "a", "g", "e", "n", "t", ":", " ", "*">>, <<"S", "i", "t", "e", "m", "a", "p", ":", " ", "/", "s", "i", "t", "e", "m", "a", "p", ".", "x", "m", "l">>>>],
             [kind |-> "text",
              lines |-> <<<<"S", "I", "T", "E", "M", "A", "P", ":", "h", "t", "t", "p", "s", ":", "/", "/", "o", "p", "e", "n", "t", "d", "f", ".", "i", "o", "/", "a", ".", "x", "m", "l">>,
                         <<"S", "i", "t", "e", "m", "a", "p", ":", " ", "h", "t", "t", "p", "s", ":", "/", "/", "o", "p", "e", "n", "t", "d", "f", ".", "i", "o", "/", "s", "i", "t", "e", "m", "a", "p", ".", "x", "m", "l">>>>]}
        RootMapOptions ==
            {FetchFails, Malformed, Xml(<<>>), Xml(<<IntroUrl>>), Xml(<<NestedMap>>),
             Xml(<<SpecUrl, BlogUrl, SpecUrl, IntroUrl, RootMap>>)}
        NestedMapOptions ==
            {FetchFails, Xml(<<SpecUrl, BlogUrl>>), Xml(<<BlogUrl>>),
             Xml(<<RootMap, NestedMap, ElsewhereUrl>>)}
        IntroPageOptions ==
            {FetchFails,
             Html(Title, 3000 \div Scale,
                  <<<<"/", "s", "p", "e", "c">>, <<"#", "t", "o", "p">>, BlogUrl, <<"/", "i", "n", "t", "r", "o", "d", "u", "c", "t", "i", "o", "n">>>>),
             Html(<<>>, 0, <<>>)}
        SpecPageOptions ==
            {FetchFails, Html(Title, 300 \div Scale, <<<<"/", "i", "n", "t", "r", "o", "d", "u", "c", "t", "i", "o", "n">>, <<"s", "d", "k", "s">>>>)}
        BlogPage == Html(Title, 0, <<<<"/", "s", "p", "e", "c">>>>)
    IN
    {[robots |-> r,
      serves |-> (RootMap :> rm) @@ (NestedMap :> nm) @@ (IntroUrl :> ip)
                 @@ (SpecUrl :> sp) @@ (BlogUrl :> BlogPage)] :
        r \in RobotsOptions, rm \in RootMapOptions, nm \in NestedMapOptions,
        ip \in IntroPageOptions, sp \in SpecPageOptions}

\* http_get(u) once its retries are over: the document served, or a failure
\* (requests rejects a URL without a scheme)
Get(u) ==
    IF HasScheme(u) /\ u \in DOMAIN web.serves THEN web.serves[u] ELSE FetchFails

----------------------------------------------------------------------------
(* discover_doc_urls *)

\* _extract_sitemap_urls_from_robots: the values of the lines that start
\* with "sitemap:" in any case; none when the fetch failed
RECURSIVE SitemapLines(_)
SitemapLines(lines) ==
    LET \* the value of a "Sitemap:" line: line.split(":", 1)[1].strip()
        SitemapValue(line) == Strip(SubSeq(line, IndexFrom(line, ":", 1) + 1, Len(line)))
    IN
    IF lines = <<>> THEN <<>>
    ELSE IF StartsWith(Lower(Head(lines)), <<"s", "i", "t", "e", "m", "a", "p", ":">>)
         THEN <<SitemapValue(Head(lines))>> \o SitemapLines(Tail(lines))
         ELSE SitemapLines(Tail(lines))

extract_sitemap_urls_from_robots(robots) ==
    IF robots.kind = "fail" THEN <<>> ELSE SitemapLines(robots.lines)

\* the <loc> values of a fetched sitemap; a document that is not XML has none
try_parse_sitemap_xml(doc) == IF doc.kind = "xml" THEN doc.locs ELSE <<>>

\* a test that takes no loc for a nested sitemap
IsSitemapLocNever(loc) == FALSE

\* a loc that is taken for a nested sitemap
IsSitemapLoc(loc) ==
    LET EndsWith(s, p) == Len(p) <= Len(s) /\ SubSeq(s, Len(s) - Len(p) + 1, Len(s)) = p
    IN
    \/ EndsWith(loc, <<".", "x", "m", "l">>)
    \/ EndsWith(loc, <<".", "x", "m", "l", ".", "g", "z">>)

\* the nested sitemaps a sitemap queues, and the docs URLs it adds
NestedLocs(locs, seen) ==
    SelectSeq(locs, LAMBDA loc : IsSitemapLoc(loc) /\ loc \notin seen)
DocLocs(locs, b) ==
    {locs[i] : i \in {j \in 1..Len(locs) :
        ~IsSitemapLoc(locs[j]) /\ is_docs_url(locs[j], b)}}

\* the links of page u the crawl queues
QueuedLinks(u, hrefs, b, seen) ==
    LET \* the absolute URL of an href of page u
        FullHref(href) ==
            IF StartsWith(href, <<"h", "t", "t", "p">>) THEN href ELSE urijoin(u, href)
        kept == SelectSeq(hrefs, LAMBDA h : \E href \in {Strip(h)} :
                    /\ ~StartsWith(href, <<"#">>)
                    /\ \E full \in {FullHref(href)} :
                          is_docs_url(full, b) /\ full \notin seen)
    IN  [i \in 1..Len(kept) |-> FullHref(Strip(kept[i]))]

\* no discover_doc_urls call is under way
IdleDiscover ==
    /\ web = None
    /\ base = <<>>
    /\ seeds = <<>>
    /\ to_visit = <<>>
    /\ seen_maps = {}
    /\ found = {}
    /\ dq = <<>>
    /\ visited = {}
    /\ requested = <<>>
    /\ dpc = "idle"
    /\ dresult = <<>>

DiscoverInputs ==
    LET SeedLists == {<<>>, <<<<"/", "i", "n", "t", "r", "o", "d", "u", "c", "t", "i", "o", "n">>>>, <<<<"/", "b", "l", "o", "g">>, <<"/", "i", "n", "t", "r", "o", "d", "u", "c", "t", "i", "o", "n">>>>}
    IN
    /\ web \in Webs
    /\ base = BaseUrl
    /\ seeds \in SeedLists
    /\ to_visit = <<>>
    /\ seen_maps = {}
    /\ found = {}
    /\ dq = <<>>
    /\ visited = {}
    /\ requested = <<>>
    /\ dpc = "call"
    /\ dresult = <<>>

\* robots.txt is fetched and the sitemap work queue is set up: the declared
\* sitemaps, then the well-known candidates, without duplicates
FetchRobots ==
    /\ dpc = "call"
    /\ requested' = <<urijoin(RStripSlash(base), <<"/", "r", "o", "b", "o", "t", "s", ".", "t", "x", "t">>)>>
    /\ \E sm_urls \in {extract_sitemap_urls_from_robots(web.robots)
                        \o [i \in 1..Len(SITEMAP_CANDIDATES) |->
                              urijoin(RStripSlash(base), SITEMAP_CANDIDATES[i])]} :
          to_visit' = Dedupe(sm_urls, {})
    /\ dpc' = "sitemaps"
    /\ UNCHANGED <<web, base, seeds, seen_maps, found, dq, visited, dresult>>
    /\ UNCHANGED <<chunkVars, fetchVars, buildVars, cleanVars, repoVars>>

\* a skip that puts the sitemap back at the end of the queue
SitemapRequeue ==
    /\ dpc = "sitemaps"
    /\ to_visit # <<>>
    /\ Head(to_visit) \in seen_maps
    /\ to_visit' = Tail(to_visit) \o <<Head(to_visit)>>
    /\ UNCHANGED <<web, base, seeds, seen_maps, found, dq, visited, requested, dpc,
                   dresult>>
    /\ UNCHANGED <<chunkVars, fetchVars, buildVars, cleanVars, repoVars>>

\* a queued sitemap that was seen already is skipped
SitemapSkip ==
    /\ dpc = "sitemaps"
    /\ to_visit # <<>>
    /\ Head(to_visit) \in seen_maps
    /\ to_visit' = Tail(to_visit)
    /\ UNCHANGED <<web, base, seeds, seen_maps, found, dq, visited, requested, dpc,
                   dresult>>
    /\ UNCHANGED <<chunkVars, fetchVars, buildVars, cleanVars, repoVars>>

\* a visit that gives up the whole queue when the fetched document cannot be
\* parsed
SitemapVisitOrGiveUp ==
    /\ dpc = "sitemaps"
    /\ to_visit # <<>>
    /\ Head(to_visit) \notin seen_maps
    /\ \E sm \in {Head(to_visit)} : \E locs \in {try_parse_sitemap_xml(Get(sm))} :
           /\ seen_maps' = seen_maps \cup {sm}
           /\ requested' = Append(requested, sm)
           /\ to_visit' = IF Get(sm).kind = "xml"
                          THEN Tail(to_visit) \o NestedLocs(locs, seen_maps \cup {sm})
                          ELSE <<>>
           /\ found' = found \cup DocLocs(locs, RStripSlash(base))
    /\ UNCHANGED <<web, base, seeds, dq, visited, dpc, dresult>>
    /\ UNCHANGED <<chunkVars, fetchVars, buildVars, cleanVars, repoVars>>

\* a visit that fetches the head of the queue whether or not it was seen
SitemapVisitAgain ==
    /\ dpc = "sitemaps"
    /\ to_visit # <<>>
    /\ \E sm \in {Head(to_visit)} : \E locs \in {try_parse_sitemap_xml(Get(sm))} :
           /\ seen_maps' = seen_maps \cup {sm}
           /\ requested' = Append(requested, sm)
           /\ to_visit' = Tail(to_visit) \o NestedLocs(locs, seen_maps \cup {sm})
           /\ found' = found \cup DocLocs(locs, RStripSlash(base))
    /\ UNCHANGED <<web, base, seeds, dq, visited, dpc, dresult>>
    /\ UNCHANGED <<chunkVars, fetchVars, buildVars, cleanVars, repoVars>>

\* a queued sitemap is fetched and parsed: nested sitemaps are queued, docs
\* URLs are added to the result set; a failed fetch contributes nothing
SitemapVisit ==
    /\ dpc = "sitemaps"
    /\ to_visit # <<>>
    /\ Head(to_visit) \notin seen_maps
    /\ \E sm \in {Head(to_visit)} : \E locs \in {try_parse_sitemap_xml(Get(sm))} :
           /\ seen_maps' = seen_maps \cup {sm}
           /\ requested' = Append(requested, sm)
           /\ to_visit' = Tail(to_visit) \o NestedLocs(locs, seen_maps \cup {sm})
           /\ found' = found \cup DocLocs(locs, RStripSlash(base))
    /\ UNCHANGED <<web, base, seeds, dq, visited, dpc, dresult>>
    /\ UNCHANGED <<chunkVars, fetchVars, buildVars, cleanVars, repoVars>>

\* "if found: return sorted(found)"
ReturnFound ==
    /\ dpc = "sitemaps"
    /\ to_visit = <<>>
    /\ found # {}
    /\ dresult' = sorted_urls(found)
    /\ dpc' = "done_sitemaps"
    /\ UNCHANGED <<web, base, seeds, to_visit, seen_maps, found, dq, visited, requested>>
    /\ UNCHANGED <<chunkVars, fetchVars, buildVars, cleanVars, repoVars>>

\* the sitemaps gave nothing and the empty list is returned at once
ReturnEmpty ==
    /\ dpc = "sitemaps"
    /\ to_visit = <<>>
    /\ found = {}
    /\ dresult' = <<>>
    /\ dpc' = "done_sitemaps"
    /\ UNCHANGED <<web, base, seeds, to_visit, seen_maps, found, dq, visited, requested>>
    /\ UNCHANGED <<chunkVars, fetchVars, buildVars, cleanVars, repoVars>>

\* the sitemaps gave nothing: the crawl queue starts with the seeds
StartCrawl ==
    /\ dpc = "sitemaps"
    /\ to_visit = <<>>
    /\ found = {}
    /\ dq' = [i \in 1..Len(seeds) |-> urijoin(RStripSlash(base), seeds[i])]
    /\ dpc' = "crawl"
    /\ UNCHANGED <<web, base, seeds, to_visit, seen_maps, found, visited, requested,
                   dresult>>
    /\ UNCHANGED <<chunkVars, fetchVars, buildVars, cleanVars, repoVars>>

\* a queued page that was visited already is skipped
CrawlSkip ==
    /\ dpc = "crawl"
    /\ dq # <<>>
    /\ Head(dq) \in visited
    /\ dq' = Tail(dq)
    /\ UNCHANGED <<web, base, seeds, to_visit, seen_maps, found, visited, requested,
                   dpc, dresult>>
    /\ UNCHANGED <<chunkVars, fetchVars, buildVars, cleanVars, repoVars>>

\* a queued page is fetched: it is added to the result set if it is a docs
\* URL, and its docs links not yet visited are queued; a failed fetch
\* contributes nothing
CrawlVisit ==
    /\ dpc = "crawl"
    /\ dq # <<>>
    /\ Head(dq) \notin visited
    /\ \E u \in {Head(dq)} : \E resp \in {Get(u)} : \E b \in {RStripSlash(base)} :
       \E links \in {IF resp.kind = "fail" THEN <<>>
                     ELSE QueuedLinks(u, IF resp.kind = "html" THEN resp.hrefs ELSE <<>>,
                                      b, visited \cup {u})} :
           /\ visited' = visited \cup {u}
           /\ requested' = Append(requested, u)
           /\ IF resp.kind = "fail"
              THEN /\ dq' = Tail(dq)
                   /\ found' = found
              ELSE /\ found' = IF is_docs_url(u, b) THEN found \cup {u} ELSE found
                   /\ dq' = Tail(dq) \o links
    /\ UNCHANGED <<web, base, seeds, to_visit, seen_maps, dpc, dresult>>
    /\ UNCHANGED <<chunkVars, fetchVars, buildVars, cleanVars, repoVars>>

\* the crawl queue is empty: "return sorted(found)"
ReturnCrawled ==
    /\ dpc = "crawl"
    /\ dq = <<>>
    /\ dresult' = sorted_urls(found)
    /\ dpc' = "done_crawl"
    /\ UNCHANGED <<web, base, seeds, to_visit, seen_maps, found, dq, visited, requested>>
    /\ UNCHANGED <<chunkVars, fetchVars, buildVars, cleanVars, repoVars>>

----------------------------------------------------------------------------
(* The docs phase of build_corpus on the site of a discovery *)

\* the chunking of the end-to-end docs scenario, scaled
ScenarioChunking ==
    [target_chars |-> 1000 \div Scale, code_target_chars |-> 800 \div Scale,
     hard_max_chars |-> 1200 \div Scale, min_chars |-> 100 \div Scale]

\* extract_doc_page and the length test that follows it: the fetch raises,
\* or the text blocks of the page are joined and cleaned, and a text shorter
\* than 200 characters (scaled) is skipped
PageServed(u) ==
    LET Filler(n) == [i \in 1..n |-> "a"]
    IN
    LET r == Get(u)
        lines == IF r.kind = "html"
                 THEN (IF r.h1 # <<>> THEN <<r.h1>> ELSE <<>>)
                        \o (IF r.filler > 0 THEN <<Filler(r.filler)>> ELSE <<>>)
                 ELSE <<>>
        content == clean_text(Join(lines))
    IN  IF r.kind = "fail" THEN [kind |-> "HttpError"]
        ELSE IF content = <<>> \/ Len(content) < 200 \div Scale THEN [kind |-> "short"]
        ELSE [kind |-> "page", content |-> content]

\* build_corpus up to the call of discover_doc_urls, which is under way
DocsInputs ==
    LET \* the configuration of a docs run with the given seeds
        DocsConfig(sds) ==
            [Config(None, <<>>, {}, <<>>, TRUE) EXCEPT
                !.chunking = ScenarioChunking,
                !.crawl.doc_seeds = [i \in 1..Len(sds) |-> StrOf(sds[i])]]
    IN
    /\ attribution_file = None
    /\ cfg = DocsConfig(seeds)
    /\ bpc = "discover"
    /\ doc_urls = <<>>
    /\ names = <<>>
    /\ rel_from = <<>>
    /\ records = <<>>
    /\ fetched = FALSE
    /\ out_file = [written |-> FALSE, lines |-> <<>>]
    /\ abort = None
    /\ stderr = <<>>

\* discover_doc_urls returns to build_corpus
DiscoverReturns ==
    /\ bpc = "discover"
    /\ dpc \in {"done_sitemaps", "done_crawl"}
    /\ doc_urls' = [i \in 1..Len(dresult) |-> StrOf(dresult[i])]
    /\ fetched' = TRUE
    /\ bpc' = "docs"
    /\ UNCHANGED <<cfg, stderr, names, rel_from, records, out_file, abort>>
    /\ UNCHANGED <<attribution_file, chunkVars, fetchVars, cleanVars, discVars, repoVars>>

\* one iteration of "for u in doc_urls" on the site of the discovery
DocPageServed ==
    /\ bpc = "docs"
    /\ doc_urls # <<>>
    /\ LET u == CHOOSE v \in {dresult[i] : i \in 1..Len(dresult)} :
                    StrOf(v) = Head(doc_urls)
       IN  /\ records' = AppendRecords(records, DocsRecords(Head(doc_urls), PageServed(u)))
           /\ stderr' = Warned(stderr, "docs extract", Head(doc_urls),
                                PageServed(u).kind = "HttpError")
    /\ doc_urls' = Tail(doc_urls)
    /\ UNCHANGED <<cfg, bpc, names, rel_from, fetched, out_file, abort>>
    /\ UNCHANGED <<attribution_file, chunkVars, fetchVars, cleanVars, discVars, repoVars>>

----------------------------------------------------------------------------
(* The repository loop of build_corpus, one tree entry at a time *)

\* the commits a default branch points to: before and after a push
Commits == <<<<"0a1b2c3d", "e4f5">>, <<"77aa88bb", "9876">>>>

\* the content of a file of a repository at a commit: the push changes every file
ContentAt(sha, path) ==
    IF sha = Commits[1] THEN <<"a", "a", "a">> ELSE <<"a", "a", "a", "a", "a">>

\* no repository is being ingested
NoIngest == [i |-> 0]

\* a null entry of a tree listing: node.get raises AttributeError on it
IsNull(node) == "type" \notin DOMAIN node

\* list_repo_tree: the recursive tree of a repository, the same at both commits.
\* The first repository holds a directory, files with upper-case, included and
\* excluded extensions, a file over the default size ceiling, a file in a
\* subdirectory, a file without a recorded size and a file whose name holds a
\* newline; its listing can hold a null entry.
TreeAt(name) ==
    LET Blob(p, n) == [type |-> "blob", path |-> p, size |-> n]
        Listed ==
            << [type |-> "tree", path |-> <<"s">>],
               Blob(<<"R", ".", "M", "D">>, 120),
               Blob(<<"s", "/", "m", ".", "g", "o">>, 900000),
               Blob(<<"s", "/", "t", ".", "m", "d">>, 10) >>
        Rest ==
            << Blob(<<"b", ".", "b", "i", "n">>, 10),
               [type |-> "blob", path |-> <<"n", ".", "m", "d">>],
               Blob(<<"s", "/", NL, ".", "m", "d">>, 10) >>
    IN  IF name = RepoA THEN <<Blob(<<"R", ".", "M", "D">>, 120)>>
        ELSE IF remote.null_entry THEN Listed \o <<[json |-> "null"]>> \o Rest
        ELSE Listed \o Rest

IdleRepo ==
    /\ remote = None
    /\ ing = NoIngest
    /\ raw_requested = <<>>

\* build_corpus at the start of "for name in names", the docs phase having
\* appended the records of one page
RepoInputs ==
    LET ExtSets == {{}, {<<".", "m", "d">>, <<".", "g", "o">>}, {<<".", "M", "D">>}}
        GlobLists ==
            {<<>>,
             <<<<"s", "/", "*", "*">>>>,
             <<<<"*", ".", "m", "d">>, <<"*", "*", "/", "t", ".", "m", "d">>>>,
             <<<<"s">>, <<"s", "/", "*">>>>}
        RepoConfigs ==
            {[Config(None, <<RepoB, RepoA>>, {}, <<>>, TRUE) EXCEPT
                  !.github.include_exts = exts,
                  !.github.max_file_bytes = ceiling,
                  !.github.exclude_path_globs = globs] :
                exts \in ExtSets, ceiling \in {0, 100}, globs \in GlobLists}
              \cup {Config("chunking", <<RepoB, RepoA>>, {}, <<>>, TRUE)}
    IN
    /\ attribution_file = None
    /\ cfg \in RepoConfigs
    /\ bpc = "repos"
    /\ doc_urls = <<>>
    /\ names = Without(cfg.github.include_repos, cfg.github.exclude_repos)
    /\ rel_from = <<>>
    /\ records = DocsRecords("https://opentdf.io/spec", [kind |-> "page", content |-> DocOne])
    /\ fetched = TRUE
    /\ out_file = [written |-> FALSE, lines |-> <<>>]
    /\ abort = None
    /\ stderr = <<>>
    /\ remote \in [head : {[name \in {RepoA, RepoB} |-> Commits[1]]}, null_entry : BOOLEAN]
    /\ ing = NoIngest
    /\ raw_requested = <<>>

\* a push moves the default branch of the repository at hand to a new commit
BranchAdvances ==
    /\ bpc = "repos"
    /\ names # <<>>
    /\ remote.head[Head(names)] = Commits[1]
    /\ remote' = [remote EXCEPT !.head[Head(names)] = Commits[2]]
    /\ UNCHANGED <<ing, raw_requested>>
    /\ UNCHANGED <<chunkVars, fetchVars, buildVars, cleanVars, discVars>>

\* get_repo_license, get_default_branch_sha and list_repo_tree answer: the
\* branch name, the commit it points to now and the tree of that commit
RepoResolved ==
    /\ bpc = "repos"
    /\ names # <<>>
    /\ ing = NoIngest
    /\ \E lic \in Licenses :
        ing' = [lic |-> lic, branch |-> "main", sha |-> remote.head[Head(names)],
                tree |-> TreeAt(Head(names)), i |-> 1]
    /\ UNCHANGED <<remote, raw_requested>>
    /\ UNCHANGED <<chunkVars, fetchVars, buildVars, cleanVars, discVars>>

\* get_default_branch_sha or list_repo_tree raises: the except clause warns
\* and the loop goes on with the next name
RepoResolveFails ==
    /\ bpc = "repos"
    /\ names # <<>>
    /\ ing = NoIngest
    /\ names' = Tail(names)
    /\ stderr' = Warned(stderr, "repo ingest", Head(names), TRUE)
    /\ UNCHANGED <<cfg, bpc, doc_urls, rel_from, records, fetched, out_file, abort>>
    /\ UNCHANGED <<attribution_file, chunkVars, fetchVars, cleanVars, discVars, repoVars>>

\* "for node in tree": an entry the filters reject
TreeNodeSkipped ==
    /\ ing # NoIngest
    /\ ing.i <= Len(ing.tree)
    /\ ~IsNull(ing.tree[ing.i])
    /\ ~NodeFetched(ing.tree[ing.i])
    /\ ing' = [ing EXCEPT !.i = @ + 1]
    /\ UNCHANGED <<remote, raw_requested>>
    /\ UNCHANGED <<chunkVars, fetchVars, buildVars, cleanVars, discVars>>

\* "for node in tree": an entry that passes the filters. get_raw_file asks
\* for the path on the branch, so it gets the file of the commit the branch
\* points to now, or fails; the chunks of a text are appended with the SHA
\* resolved before
TreeNodeFetched ==
    /\ ing # NoIngest
    /\ ing.i <= Len(ing.tree)
    /\ ~IsNull(ing.tree[ing.i])
    /\ NodeFetched(ing.tree[ing.i])
    /\ ~Lacks("chunking")
    /\ ~Lacks("output")
    /\ \E node \in {ing.tree[ing.i]} :
        /\ raw_requested' =
              Append(raw_requested,
                     [repo |-> Head(names), branch |-> ing.branch, path |-> node.path])
        /\ \E raw \in {[kind |-> "HttpError"],
                       [kind |-> "text",
                        content |-> ContentAt(remote.head[Head(names)], node.path)]} :
              records' = AppendRecords(records,
                  NodeRecords(Head(names), node, ing.sha, ing.lic, raw))
    /\ ing' = [ing EXCEPT !.i = @ + 1]
    /\ UNCHANGED <<cfg, bpc, doc_urls, names, rel_from, fetched, out_file, abort, stderr>>
    /\ UNCHANGED <<attribution_file, remote, chunkVars, fetchVars, cleanVars, discVars>>

\* an entry that raises and ends the whole run instead of the repository
TreeNodeAborts ==
    /\ ing # NoIngest
    /\ ing.i <= Len(ing.tree)
    /\ IsNull(ing.tree[ing.i])
    /\ bpc' = "aborted"
    /\ abort' = "AttributeError"
    /\ ing' = NoIngest
    /\ UNCHANGED <<cfg, doc_urls, names, rel_from, records, fetched, out_file, stderr>>
    /\ UNCHANGED <<attribution_file, remote, raw_requested>>
    /\ UNCHANGED <<chunkVars, fetchVars, cleanVars, discVars>>

\* "for node in tree": the entry raises (node.get on a null entry, or
\* cfg["chunking"] / cfg["output"] missing once a text is there): the except
\* clause of the repository warns and the loop goes on with the next name
TreeNodeRaises ==
    /\ ing # NoIngest
    /\ ing.i <= Len(ing.tree)
    /\ IF IsNull(ing.tree[ing.i])
       THEN raw_requested' = raw_requested
       ELSE /\ NodeFetched(ing.tree[ing.i])
            /\ Lacks("chunking") \/ Lacks("output")
            /\ raw_requested' =
                  Append(raw_requested,
                         [repo |-> Head(names), branch |-> ing.branch,
                          path |-> ing.tree[ing.i].path])
    /\ names' = Tail(names)
    /\ stderr' = Warned(stderr, "repo ingest", Head(names), TRUE)
    /\ ing' = NoIngest
    /\ UNCHANGED <<cfg, bpc, doc_urls, rel_from, records, fetched, out_file, abort>>
    /\ UNCHANGED <<attribution_file, remote, chunkVars, fetchVars, cleanVars, discVars>>

\* the tree is exhausted: the loop goes on with the next name
TreeDone ==
    /\ ing # NoIngest
    /\ ing.i > Len(ing.tree)
    /\ names' = Tail(names)
    /\ ing' = NoIngest
    /\ UNCHANGED <<cfg, bpc, doc_urls, rel_from, records, fetched, out_file, abort, stderr>>
    /\ UNCHANGED <<attribution_file, remote, raw_requested>>
    /\ UNCHANGED <<chunkVars, fetchVars, cleanVars, discVars>>

----------------------------------------------------------------------------
(* Specifications *)

InitChunk == ChunkInputs /\ IdleFetch /\ IdleBuild /\ IdleClean /\ IdleDiscover /\ IdleRepo

NextChunk == ChunkCall

SpecChunk == InitChunk /\ [][NextChunk]_vars

InitFetch == FetchInputs /\ IdleChunk /\ IdleBuild /\ IdleClean /\ IdleDiscover /\ IdleRepo

NextFetch == AttemptReturns \/ AttemptRetried \/ AttemptPropagates

SpecFetch == InitFetch /\ [][NextFetch]_vars

InitBuild == BuildInputs /\ IdleChunk /\ IdleFetch /\ IdleClean /\ IdleDiscover /\ IdleRepo

NextBuild ==
    \/ CrawlKeyError
    \/ DiscoverDocs
    \/ DocPage
    \/ GithubKeyError
    \/ ListOrgRepos
    \/ ListOrgReposFails
    \/ RepoIngestFails
    \/ RepoIngest
    \/ ReleasesKeyError
    \/ ReleasesStart
    \/ ReleaseRepo
    \/ WriteOutput
    \/ WriteFails
    \/ WriteAttribution
    \/ AttributionFails

SpecBuild == InitBuild /\ [][NextBuild]_vars

InitDocs == DiscoverInputs /\ DocsInputs /\ IdleChunk /\ IdleFetch /\ IdleClean /\ IdleRepo

NextDocs ==
    \/ FetchRobots
    \/ SitemapSkip
    \/ SitemapVisit
    \/ ReturnFound
    \/ StartCrawl
    \/ CrawlSkip
    \/ CrawlVisit
    \/ ReturnCrawled
    \/ DiscoverReturns
    \/ DocPageServed

SpecDocs == InitDocs /\ [][NextDocs]_vars

\* the interpreter keeps running the loops of discover_doc_urls: a step of the
\* call that can be taken is taken
SpecDocsFair ==
    /\ InitDocs
    /\ [][NextDocs]_vars
    /\ WF_vars(\/ FetchRobots
               \/ SitemapSkip \/ SitemapVisit \/ ReturnFound
               \/ StartCrawl
               \/ CrawlSkip \/ CrawlVisit \/ ReturnCrawled)

InitRepo == RepoInputs /\ IdleChunk /\ IdleFetch /\ IdleClean /\ IdleDiscover

NextRepo ==
    \/ BranchAdvances
    \/ RepoResolved
    \/ RepoResolveFails
    \/ TreeNodeSkipped
    \/ TreeNodeFetched
    \/ TreeNodeRaises
    \/ TreeDone

SpecRepo == InitRepo /\ [][NextRepo]_vars

InitClean == CleanInputs /\ IdleChunk /\ IdleFetch /\ IdleBuild /\ IdleDiscover /\ IdleRepo

NextClean == CleanCall

SpecClean == InitClean /\ [][NextClean]_vars

----------------------------------------------------------------------------
(* Claims about split_into_chunks, checked under SpecChunk *)

ChunkReturned == cpc = "returned"

\* no run of two or more newlines
SinglePara(s) == \A i \in 1..(Len(s) - 1) : ~(s[i] = NL /\ s[i + 1] = NL)

\* C1: every chunk returned by split_into_chunks has length <= hard_max_chars,
\* for every text and every target_chars, hard_max_chars >= 1 and min_chars.
C1_ChunkSizeBound ==
    ChunkReturned => \A i \in 1..Len(chunks) : Len(chunks[i]) <= hard_max

\* C2: a text with len(text) <= hard_max_chars is returned as exactly one
\* chunk equal to the text, unmodified, whatever target_chars and min_chars.
C2_Passthrough ==
    (ChunkReturned /\ Len(text) <= hard_max) => chunks = <<text>>

\* C2 witness: a whitespace-padded text that fits hard_max came back whole
C2_Witness ==
    /\ ChunkReturned
    /\ Len(text) <= hard_max
    /\ text # <<>>
    /\ Strip(text) # text
    /\ chunks = <<text>>

\* the shape C3 promises: 4 chunks of hard_max, hard_max, hard_max and 5
FourPieces ==
    /\ Len(chunks) = 4
    /\ \A i \in 1..3 : Len(chunks[i]) = hard_max
    /\ Len(chunks[4]) = 5

\* C3 as stated: for every hard_max_chars >= 1 and every target_chars and
\* min_chars, a single paragraph of length hard_max*3+5 is returned as 4
\* chunks, the first three of length hard_max and the last of length 5.
C3_BrutalSplitOriginal ==
    (ChunkReturned /\ hard_max >= 1 /\ Len(text) = 3 * hard_max + 5 /\ SinglePara(text))
        => FourPieces

\* C3 amended: for hard_max_chars >= 5 and a single paragraph of length
\* hard_max*3+5 with no leading or trailing whitespace, the result is the 4
\* chunks (hard_max, hard_max, hard_max, 5) when the paragraph does not fit
\* the target budget (target_chars < hard_max*3+7), and the paragraph whole,
\* as one chunk, when it does.
C3_BrutalSplit ==
    (/\ ChunkReturned
     /\ hard_max >= 5
     /\ Len(text) = 3 * hard_max + 5
     /\ SinglePara(text)
     /\ Strip(text) = text)
        => IF target_chars < 3 * hard_max + 7 THEN FourPieces ELSE chunks = <<text>>

\* C3 witness: a 20-character paragraph holding a single newline, force-split
\* at hard_max = 5 with target_chars <= hard_max
C3_Witness ==
    /\ ChunkReturned
    /\ hard_max = 5
    /\ target_chars <= hard_max
    /\ Len(text) = 20
    /\ SinglePara(text)
    /\ Strip(text) = text
    /\ \E i \in 1..Len(text) : text[i] = NL
    /\ FourPieces

\* the paragraphs the loop of split_into_chunks runs over
Paras == SplitParas(Strip(text))

\* the call went past the early return
WasSplit == ChunkReturned /\ Len(text) > hard_max

\* the loop state after the first k paragraphs
StAfter(k) ==
    ParaLoop([chunks |-> <<>>, buf |-> <<>>, cur |-> 0], SubSeq(Paras, 1, k),
             target_chars, hard_max, min_chars)

\* paragraph k does not fit and a non-empty buffer is flushed before it
FlushedAt(k) ==
    /\ ~FitsTarget(StAfter(k - 1).cur, Paras[k], target_chars)
    /\ StAfter(k - 1).buf # <<>>

\* paragraph k is force-split
SplitAt(k) ==
    /\ ~FitsTarget(StAfter(k - 1).cur, Paras[k], target_chars)
    /\ Len(Paras[k]) > hard_max

\* the slices paragraph k contributes
SlicesAt(k) == IF SplitAt(k) THEN Slices(Paras[k], hard_max) ELSE <<>>

IsPrefix(a, b) == Len(a) <= Len(b) /\ SubSeq(b, 1, Len(a)) = a

RECURSIVE Flatten(_)
Flatten(ss) == IF ss = <<>> THEN <<>> ELSE Head(ss) \o Flatten(Tail(ss))

\* the characters of s that are not whitespace, in order
Letters(s) == SelectSeq(s, LAMBDA c : ~IsSpace(c))

\* C14: for a text longer than hard_max no paragraph is missing from the
\* chunks: the chunks hold, in order, every non-whitespace character of the
\* text (paragraph boundaries, surrounding whitespace and the cuts of a forced
\* split aside).
C14_NoParagraphLost ==
    WasSplit => Letters(Flatten(chunks)) = Letters(text)

\* chunk j is the buffer flushed after the loop
IsFinalFlush(j) == j = Len(chunks) /\ StAfter(Len(Paras)).buf # <<>>

\* chunk j is a slice of a force-split paragraph
IsSlice(j) ==
    \E k \in 1..Len(Paras) :
        /\ SplitAt(k)
        /\ Len(StAfter(k).chunks) - Len(SlicesAt(k)) < j
        /\ j <= Len(StAfter(k).chunks)

\* chunk j is the last slice of a force-split paragraph
IsLastSlice(j) ==
    \E k \in 1..Len(Paras) : SplitAt(k) /\ j = Len(StAfter(k).chunks)

\* chunk j is a buffer flushed while no chunk had been emitted
IsFirstFlush(j) ==
    j = 1 /\ \E k \in 1..Len(Paras) : FlushedAt(k) /\ StAfter(k - 1).chunks = <<>>

\* C15 as stated: every chunk has at least min_chars characters unless it is
\* the only chunk, the final flushed buffer or the last slice of a force-split
\* paragraph.
C15_MinCharsOriginal ==
    WasSplit =>
        \A j \in 1..Len(chunks) :
            \/ Len(chunks[j]) >= min_chars
            \/ Len(chunks) = 1
            \/ IsFinalFlush(j)
            \/ IsLastSlice(j)

\* C15 amended: every chunk has at least min_chars characters unless it is
\* the only chunk, the final flushed buffer, a slice of a force-split
\* paragraph, or a first chunk that was flushed while no chunk had been emitted.
C15_MinChars ==
    ChunkReturned =>
        \/ Len(chunks) = 1
        \/ /\ WasSplit
           /\ \A j \in 1..Len(chunks) :
                \/ Len(chunks[j]) >= min_chars
                \/ IsFinalFlush(j)
                \/ IsSlice(j)
                \/ IsFirstFlush(j)

\* C15 witness: three or more chunks, the first kept below min_chars because
\* no chunk had been emitted, a later flushed buffer kept at min_chars or more
C15_Witness ==
    /\ WasSplit
    /\ Len(chunks) >= 3
    /\ IsFirstFlush(1)
    /\ Len(chunks[1]) < min_chars
    /\ \E k \in 1..Len(Paras) :
        /\ FlushedAt(k)
        /\ StAfter(k - 1).chunks # <<>>
        /\ Len(StAfter(k).chunks) > Len(StAfter(k - 1).chunks) + Len(SlicesAt(k))

\* what a flush before paragraph k must leave behind, "kept" being the
\* keep-or-drop decision of the flushed buffer
FlushOutcome(k, kept) ==
    LET before == StAfter(k - 1)
        after == StAfter(k)
        chunk == Strip(Join(before.buf))
    IN  /\ after.chunks =
              (IF kept THEN Append(before.chunks, chunk) ELSE before.chunks)
                  \o SlicesAt(k)
        /\ after.buf = IF SplitAt(k) THEN <<>> ELSE <<Paras[k]>>
        /\ IsPrefix(after.chunks, chunks)

----------------------------------------------------------------------------
(* Claims about http_get, checked under SpecFetch *)

IsHttpError(r) == r.kind = "exception" /\ r.type = "HttpError"

\* C6: a fetch makes at most 5 attempts; the first attempt whose status is
\* below 400 ends the call and returns that response; and when all 5 attempts
\* answer with a status >= 400 the call fails with an error that identifies
\* the URL and the last status.
C6_RetryPolicy ==
    /\ Len(attempts) <= 5
    /\ \A k \in 1..Len(attempts) :
        attempts[k].kind = "response" =>
            /\ attempts[k].status_code < 400
            /\ k = Len(attempts)
            /\ hpc = "returned"
            /\ hresult = attempts[k]
    /\ hpc = "returned" => attempts # <<>> /\ attempts[Len(attempts)].kind = "response"
    /\ (Len(attempts) = 5 /\ \A k \in 1..5 : IsHttpError(attempts[k])) =>
            /\ hpc = "raised"
            /\ hresult.type = "RetryError"
            /\ \E st \in {x \in Statuses : x >= 400} :
                /\ attempts[5] = HttpError(url, st)
                /\ hresult.last_attempt.message = "GET " \o url \o " -> " \o ToString(st)

\* C6 witness: a call that failed 5 times with a status >= 400 and raised
C6_WitnessExhausted ==
    /\ hpc = "raised"
    /\ Len(attempts) = 5
    /\ \A k \in 1..5 : IsHttpError(attempts[k])
    /\ hresult.type = "RetryError"
    /\ attempts[4] # attempts[5]

\* the transient class: a status >= 400 or a network-level failure
TransientFailure(r) ==
    r.kind = "exception" /\ r.type \in {"HttpError"} \cup NetworkErrors

\* C7: the failures that are retried are exactly the transient ones: an
\* attempt that fails with a status >= 400 or with a network-level failure is
\* retried under the 5-attempt policy, any other error propagates after the
\* first attempt.  So a call that has raised has made 5 attempts when its
\* last failure was transient, and 1 attempt otherwise.
C7_RetriedExactlyTransient ==
    hpc = "raised" =>
        IF TransientFailure(attempts[Len(attempts)])
        THEN Len(attempts) = 5
        ELSE Len(attempts) = 1

----------------------------------------------------------------------------
(* Claims about build_corpus, checked under SpecBuild *)

RecIdx == 1..Len(records)

\* C4: in the record list of one build_corpus run all record ids are
\* pairwise distinct, for every include list, tree and sequence of releases.
C4_UniqueIds ==
    \A i, j \in RecIdx : i # j => records[i].id # records[j].id

\* the locator of a record: the docs URL, the repository, commit and path, or
\* the repository and release name
Locator(r) ==
    CASE r.source_type = "docs" -> <<"docs", r.url>>
      [] r.source_type = "repo" -> <<"repo", r.repo, r.path, r.commit>>
      [] r.source_type = "release" -> <<"release", r.repo, r.version>>

\* the locator with the commit cut to the 8 characters the id embeds
Locator8(r) ==
    CASE r.source_type = "docs" -> <<"docs", r.url>>
      [] r.source_type = "repo" -> <<"repo", r.repo, r.path, Sha8(r.commit)>>
      [] r.source_type = "release" -> <<"release", r.repo, r.version>>

EqualContentEqualHash ==
    \A i, j \in RecIdx :
        records[i].content = records[j].content => records[i].hash = records[j].hash

C8_OnlyConfigOrWriteAborts ==
    bpc = "aborted" => abort \in {"KeyError", "OSError"}

\* C9: with a required configuration key missing the run aborts, and no
\* network fetch and no output-file write happens before the abort.
C9_ConfigAbortBeforeIO ==
    cfg.missing # None =>
        /\ bpc \in {"start", "aborted"}
        /\ ~fetched
        /\ ~out_file.written

Rank(t) == CASE t = "docs" -> 1 [] t = "repo" -> 2 [] t = "release" -> 3

Ordered(recs) ==
    \A i, j \in 1..Len(recs) :
        i < j => Rank(recs[i].source_type) <= Rank(recs[j].source_type)

\* C10: in the record sequence every docs record precedes every repo record
\* and every repo record precedes every release record, in the list being
\* accumulated and in the file written.
C10_KindOrder == Ordered(records) /\ Ordered(out_file.lines)

\* C10 witness: a written file that holds records of all three kinds
C10_Witness ==
    /\ bpc = "done"
    /\ out_file.written
    /\ \A t \in {"docs", "repo", "release"} :
        \E i \in 1..Len(out_file.lines) : out_file.lines[i].source_type = t

\* the lines of a written text (str.splitlines): the pieces between newlines,
\* a final newline ending the last line
RECURSIVE FileLinesFrom(_, _, _)
FileLinesFrom(t, i, cur) ==
    IF i > Len(t) THEN (IF cur = "" THEN <<>> ELSE <<cur>>)
    ELSE IF t[i] = NL THEN <<cur>> \o FileLinesFrom(t, i + 1, "")
    ELSE FileLinesFrom(t, i + 1, cur \o t[i])

FileLines(t) == FileLinesFrom(t, 1, "")

\* the non-empty attribution strings of the records
RecordAttributions ==
    {records[i].attribution : i \in RecIdx} \ {None, ""}

\* C18: after a completed run the attribution manifest holds exactly the
\* distinct non-empty attribution strings of the records, one per line, each
\* once, in sorted order (with no such string the manifest is one empty line).
C18_Manifest ==
    bpc = "done" =>
        LET ls == FileLines(attribution_file)
        IN  IF RecordAttributions = {}
            THEN ls = <<"">>
            ELSE /\ {ls[i] : i \in 1..Len(ls)} = RecordAttributions
                 /\ \A i, j \in 1..Len(ls) : i < j => StrOrd(ls[i]) < StrOrd(ls[j])

\* C18 witness: a completed run whose records carry three or more distinct
\* attributions, some shared by several records, first met in an order that
\* is not the sorted one
C18_Witness ==
    /\ bpc = "done"
    /\ Cardinality(RecordAttributions) >= 3
    /\ Len(records) > Cardinality(RecordAttributions)
    /\ \E i, j \in RecIdx :
        /\ i < j
        /\ StrOrd(records[j].attribution) < StrOrd(records[i].attribution)

----------------------------------------------------------------------------
(* Claims about clean_text, checked under SpecClean *)

CleanReturned == ctpc = "returned"

\* C16: clean_text is idempotent: cleaning the result of a call again
\* leaves it as it is.
C16_Idempotent == CleanReturned => clean_text(cleaned) = cleaned

\* C16 witness: a call that changed its argument, which held a carriage
\* return, a tab and three newlines in a row
C16_Witness ==
    /\ CleanReturned
    /\ cleaned # ctext
    /\ cleaned # <<>>
    /\ \E i \in 1..Len(ctext) : ctext[i] = CR
    /\ \E i \in 1..Len(ctext) : ctext[i] = TAB
    /\ \E i \in 1..Len(ctext) : NlRun(CrToNl(ctext), i) >= 3

\* s.split("\n") from position i on, cur being the line in progress
RECURSIVE LinesFrom(_, _, _)
LinesFrom(s, i, cur) ==
    IF i > Len(s) THEN <<cur>>
    ELSE IF s[i] = NL THEN <<cur>> \o LinesFrom(s, i + 1, <<>>)
    ELSE LinesFrom(s, i + 1, Append(cur, s[i]))

\* a line that holds nothing, or only spaces and tabs
BlankLine(l) == \A i \in 1..Len(l) : IsBlank(l[i])

\* three consecutive blank lines
ThreeBlankLines(s) ==
    LET ls == LinesFrom(s, 1, <<>>)
    IN  \E i \in 1..(Len(ls) - 2) :
            BlankLine(ls[i]) /\ BlankLine(ls[i + 1]) /\ BlankLine(ls[i + 2])

\* C17: the result of clean_text holds no carriage return, no run of three or
\* more consecutive blank lines (lines of spaces or tabs included), and no
\* leading or trailing whitespace.
C17_CleanInvariant ==
    CleanReturned =>
        /\ \A i \in 1..Len(cleaned) : cleaned[i] # CR
        /\ ~ThreeBlankLines(cleaned)
        /\ Strip(cleaned) = cleaned

----------------------------------------------------------------------------
(* Claims about discover_doc_urls and the docs phase, checked under SpecDocs *)

DiscoverReturned == dpc \in {"done_sitemaps", "done_crawl"}

WasRequested(u) == \E i \in 1..Len(requested) : requested[i] = u

\* strictly increasing in Python's string order
StrictlySorted(us) == \A i, j \in 1..Len(us) : i < j => StrLess(us[i], us[j])

Elements(us) == {us[i] : i \in 1..Len(us)}

\* C11: with a root sitemap whose only loc is a nested sitemap, which lists
\* one allowlisted URL and one URL outside the allowlist, the nested sitemap
\* is fetched and exactly the allowlisted URL is returned.
C11_NestedSitemap ==
    (/\ DiscoverReturned
     /\ web.serves[RootMap] = Xml(<<NestedMap>>)
     /\ web.serves[NestedMap] = Xml(<<SpecUrl, BlogUrl>>))
        => /\ WasRequested(NestedMap)
           /\ dresult = <<SpecUrl>>

\* C11 witness: that site, the nested sitemap reached through the root
\* sitemap only, the allowlisted URL returned
C11_Witness ==
    /\ DiscoverReturned
    /\ web.serves[RootMap] = Xml(<<NestedMap>>)
    /\ web.serves[NestedMap] = Xml(<<SpecUrl, BlogUrl>>)
    /\ extract_sitemap_urls_from_robots(web.robots) = <<>>
    /\ is_docs_url(SpecUrl, base)
    /\ ~is_docs_url(BlogUrl, base)
    /\ dresult = <<SpecUrl>>

\* the sitemaps the work queue starts with
InitialMaps ==
    Elements(extract_sitemap_urls_from_robots(web.robots))
        \cup {urijoin(base, SITEMAP_CANDIDATES[i]) : i \in 1..Len(SITEMAP_CANDIDATES)}

\* the locs of a sitemap
LocsOf(sm) == Elements(try_parse_sitemap_xml(Get(sm)))

\* the sitemaps reachable from a set of sitemaps through nested locs
RECURSIVE MapsClosure(_)
MapsClosure(ms) ==
    LET more == ms \cup {l \in UNION {LocsOf(sm) : sm \in ms} : IsSitemapLoc(l)}
    IN  IF more = ms THEN ms ELSE MapsClosure(more)

\* the allowlisted URLs the sitemaps of the site list
SitemapYield ==
    {l \in UNION {LocsOf(sm) : sm \in MapsClosure(InitialMaps)} :
        ~IsSitemapLoc(l) /\ is_docs_url(l, base)}

RobotsDeclaresSitemap == extract_sitemap_urls_from_robots(web.robots) # <<>>

\* the pages the crawl fetched that are docs URLs
CrawlYield == {u \in visited : Get(u).kind # "fail" /\ is_docs_url(u, base)}

\* C12: when robots.txt declares a sitemap, the sitemaps list no allowlisted
\* URL and seeds are given, the crawl runs from the seeds and its result is
\* returned.
C12_FallbackCrawl ==
    (/\ DiscoverReturned
     /\ RobotsDeclaresSitemap
     /\ SitemapYield = {}
     /\ seeds # <<>>)
        => /\ dpc = "done_crawl"
           /\ \A i \in 1..Len(seeds) : WasRequested(urijoin(base, seeds[i]))
           /\ Elements(dresult) = CrawlYield
           /\ StrictlySorted(dresult)

\* C12 witness: such a call whose crawl followed a link and returned two pages
C12_Witness ==
    /\ DiscoverReturned
    /\ RobotsDeclaresSitemap
    /\ SitemapYield = {}
    /\ seeds # <<>>
    /\ Len(dresult) >= 2
    /\ \E u \in visited : \A i \in 1..Len(seeds) : u # urijoin(base, seeds[i])

\* C20: when the sitemaps list at least one allowlisted URL, the result is
\* exactly that set, sorted and without duplicates, and the crawl requests
\* nothing: every request is robots.txt or a sitemap.
C20_SitemapResultOnly ==
    (DiscoverReturned /\ SitemapYield # {})
        => /\ dpc = "done_sitemaps"
           /\ Elements(dresult) = SitemapYield
           /\ StrictlySorted(dresult)
           /\ visited = {}
           /\ \A i \in 1..Len(requested) :
                \/ requested[i] = urijoin(base, <<"/", "r", "o", "b", "o", "t", "s", ".", "t", "x", "t">>)
                \/ requested[i] \in MapsClosure(InitialMaps)
           /\ \A i \in 1..Len(seeds) : ~WasRequested(urijoin(base, seeds[i]))

\* C20 witness: seeds are given, a sitemap lists an allowlisted URL twice and
\* two or more allowlisted URLs are returned
C20_Witness ==
    /\ DiscoverReturned
    /\ seeds # <<>>
    /\ Cardinality(SitemapYield) >= 2
    /\ web.serves[RootMap] = Xml(<<SpecUrl, BlogUrl, SpecUrl, IntroUrl, RootMap>>)
    /\ Len(dresult) = Cardinality(SitemapYield)

\* the site and configuration of the end-to-end scenario: robots.txt declares
\* "Sitemap: /sitemap.xml", the sitemap lists one allowlisted page, the page
\* is an h1 "Title" and one paragraph of 3000 filler characters (scaled)
Scenario ==
    /\ Elements(web.robots.lines) \cap {<<"S", "i", "t", "e", "m", "a", "p", ":", " ", "/", "s", "i", "t", "e", "m", "a", "p", ".", "x", "m", "l">>} # {}
    /\ web.serves[RootMap] = Xml(<<IntroUrl>>)
    /\ web.serves[IntroUrl].kind = "html"
    /\ web.serves[IntroUrl].h1 = Title
    /\ web.serves[IntroUrl].filler = 3000 \div Scale
    /\ cfg.chunking = ScenarioChunking

\* the records of a page, in the order they were emitted
RecordsOf(u) == SelectSeq(records, LAMBDA r : r.url = u)

\* C13: in the end-to-end scenario the docs phase emits at least 3 records for
\* the page, with strictly increasing chunk_index, one chunk_count and
\* source_type "docs".
C13_EndToEnd ==
    (/\ bpc = "docs"
     /\ doc_urls = <<>>
     /\ web.robots.kind = "text"
     /\ Scenario)
        => LET rs == RecordsOf(StrOf(IntroUrl))
           IN  /\ Len(rs) >= 3
               /\ \A i, j \in 1..Len(rs) : i < j => rs[i].chunk_index < rs[j].chunk_index
               /\ \A i, j \in 1..Len(rs) : rs[i].chunk_count = rs[j].chunk_count
               /\ \A i \in 1..Len(rs) : rs[i].source_type = "docs"

\* C13 witness: the docs phase of the scenario is over and the page gave the
\* title and three slices of its paragraph
C13_Witness ==
    /\ bpc = "docs"
    /\ doc_urls = <<>>
    /\ web.robots.kind = "text"
    /\ Scenario
    /\ Len(RecordsOf(StrOf(IntroUrl))) = 4
    /\ Len(records) = 4

\* "p in s" on strings
Infix(p, s) == \E i \in 1..(Len(s) - Len(p) + 1) : SubSeq(s, i, i + Len(p) - 1) = p

\* the allowlist test as the specification words it: the URL starts with the
\* base URL and contains one of the documentation-section hints
Allowlisted(u) ==
    /\ StartsWith(u, base)
    /\ \E i \in 1..Len(DOC_SECTION_HINTS) : Infix(DOC_SECTION_HINTS[i], u)

\* C21: every URL discover_doc_urls returns, from the sitemaps or from the
\* crawl, passes the allowlist test, and a seed that fails the test is
\* requested by the crawl but is not returned.
C21_Allowlist ==
    DiscoverReturned =>
        /\ \A i \in 1..Len(dresult) : Allowlisted(dresult[i])
        /\ dpc = "done_crawl" =>
              \A i \in 1..Len(seeds) :
                  ~Allowlisted(urijoin(base, seeds[i])) =>
                      /\ WasRequested(urijoin(base, seeds[i]))
                      /\ urijoin(base, seeds[i]) \notin Elements(dresult)

\* C21 witness: a crawl from the seeds /blog and /introduction that fetched
\* the blog page, served as a page, and returned other pages only
C21_Witness ==
    /\ dpc = "done_crawl"
    /\ \E i \in 1..Len(seeds) : urijoin(base, seeds[i]) = BlogUrl
    /\ ~Allowlisted(BlogUrl)
    /\ WasRequested(BlogUrl)
    /\ Get(BlogUrl).kind = "html"
    /\ dresult # <<>>
    /\ BlogUrl \notin Elements(dresult)

\* how often a URL was requested
TimesRequested(u) == Cardinality({i \in 1..Len(requested) : requested[i] = u})

\* C22: no sitemap URL is requested twice within one call.
C22_SitemapOnce == \A sm \in seen_maps : TimesRequested(sm) = 1

\* C22 witness: the root sitemap is declared in robots.txt, is a well-known
\* candidate, lists itself and is listed by the nested sitemap, which lists
\* itself too; the nested sitemap was queued before the root sitemap
C22_Witness ==
    /\ DiscoverReturned
    /\ RootMap \in Elements(extract_sitemap_urls_from_robots(web.robots))
    /\ \E i \in 1..Len(SITEMAP_CANDIDATES) : urijoin(base, SITEMAP_CANDIDATES[i]) = RootMap
    /\ RootMap \in LocsOf(RootMap)
    /\ {RootMap, NestedMap} \subseteq LocsOf(NestedMap)
    /\ TimesRequested(RootMap) = 1
    /\ TimesRequested(NestedMap) = 1
    /\ \E i, j \in 1..Len(requested) :
          i < j /\ requested[i] = NestedMap /\ requested[j] = RootMap

\* the well-known candidates resolved against the base, in their order
CandidateMaps == [i \in 1..Len(SITEMAP_CANDIDATES) |-> urijoin(base, SITEMAP_CANDIDATES[i])]

\* whether the fetch of a sitemap gave a parsable document
Parsable(sm) == Get(sm).kind = "xml"

\* C24: a failed robots.txt fetch leaves exactly the well-known candidates to
\* process, every sitemap reachable from the queue is requested whichever of
\* them fail, and the URLs collected from the sitemaps come from the sitemaps
\* that were fetched and parsed.
C24_SourceFailures ==
    DiscoverReturned =>
        /\ web.robots.kind = "fail" =>
              /\ Len(requested) > Len(CandidateMaps)
              /\ SubSeq(requested, 2, Len(CandidateMaps) + 1) = CandidateMaps
        /\ \A sm \in MapsClosure(InitialMaps) : WasRequested(sm)
        /\ dpc = "done_sitemaps" =>
              \A u \in found : \E sm \in seen_maps : Parsable(sm) /\ u \in LocsOf(sm)

\* C24 witness: robots.txt declares a nested sitemap whose fetch fails, then
\* the root sitemap; the root sitemap is processed and its URLs are returned
C24_Witness ==
    /\ dpc = "done_sitemaps"
    /\ RobotsDeclaresSitemap
    /\ Head(extract_sitemap_urls_from_robots(web.robots)) = NestedMap
    /\ Get(NestedMap).kind = "fail"
    /\ \E i, j \in 1..Len(requested) :
          i < j /\ requested[i] = NestedMap /\ requested[j] = RootMap
    /\ Parsable(RootMap)
    /\ dresult = <<IntroUrl, SpecUrl>>

----------------------------------------------------------------------------
(* Termination of discover_doc_urls, checked under SpecDocsFair *)

\* C23: every call of discover_doc_urls returns, with the sitemap work queue
\* and the crawl queue both empty.
C23_Terminates == <>(DiscoverReturned /\ to_visit = <<>> /\ dq = <<>>)

\* C23 witness: the root sitemap and the nested sitemap list each other, the
\* nested sitemap lists itself, the introduction page and the spec page link
\* to each other, and the call has returned after crawling both pages
C23_Witness ==
    /\ dpc = "done_crawl"
    /\ NestedMap \in LocsOf(RootMap)
    /\ {RootMap, NestedMap} \subseteq LocsOf(NestedMap)
    /\ Get(IntroUrl).kind = "html"
    /\ Get(SpecUrl).kind = "html"
    /\ {IntroUrl, SpecUrl} \subseteq visited
    /\ to_visit = <<>>
    /\ dq = <<>>

----------------------------------------------------------------------------
(* Failures of the fallback crawl, checked under SpecDocs *)

\* a warning about u has been printed to sys.stderr
Logged(u) == \E i \in 1..Len(stderr) : stderr[i].about = StrOf(u)

\* C25: in the fallback crawl each URL is fetched at most once; a page whose
\* fetch fails is logged, is not added to the result set, and the remaining
\* queued URLs are still processed (every seed is visited when the crawl ends).
C25_CrawlFailures ==
    dpc \in {"crawl", "done_crawl"} =>
        /\ \A u \in visited : TimesRequested(u) = 1
        /\ \A u \in visited : Get(u).kind = "fail" => u \notin found /\ Logged(u)
        /\ dpc = "done_crawl" =>
              \A i \in 1..Len(seeds) : urijoin(base, seeds[i]) \in visited

\* the same without the log: a failed page is fetched once, stays out of the
\* result, and the crawl goes on to the URLs queued behind it
C25_CrawlSkipsFailures ==
    dpc \in {"crawl", "done_crawl"} =>
        /\ \A u \in visited : TimesRequested(u) = 1
        /\ \A u \in visited : Get(u).kind = "fail" => u \notin found
        /\ dpc = "done_crawl" =>
              \A i \in 1..Len(seeds) : urijoin(base, seeds[i]) \in visited

----------------------------------------------------------------------------
(* Backoff of http_get, checked under SpecFetch *)

\* C29: the wait before attempt k+1 (after the k-th failed attempt, k = 1..4)
\* is min(10, 2^(k-1)) time-units, that is 1, 2, 4, 8: the first wait is 1,
\* waits never decrease and none exceeds 10; a wait is made after every failed
\* attempt that is followed by another one, and after no other.
C29_Backoff ==
    /\ Len(waits) = (IF hpc = "attempting" THEN Len(attempts)
                     ELSE IF attempts = <<>> THEN 0 ELSE Len(attempts) - 1)
    /\ Len(waits) <= 4
    /\ \A k \in 1..Len(waits) :
          /\ waits[k] = (IF 2 ^ (k - 1) < 10 THEN 2 ^ (k - 1) ELSE 10)
          /\ waits[k] = <<1, 2, 4, 8>>[k]
          /\ waits[k] <= 10
          /\ k > 1 => waits[k - 1] <= waits[k]
    /\ waits # <<>> => waits[1] = 1

\* C29 witness: a call that failed five times has waited 1, 2, 4 and 8
C29_Witness ==
    /\ hpc = "raised"
    /\ Len(attempts) = 5
    /\ hresult.type = "RetryError"
    /\ waits = <<1, 2, 4, 8>>

----------------------------------------------------------------------------
(* Chunk ordinals of the records, checked under SpecBuild *)

\* the ids a record of repository or release repository name can carry before
\* its chunk suffix
IdStem(r, name) ==
    CASE r.source_type = "docs" -> "docs::" \o r.url
      [] r.source_type = "repo" ->
            "repo::" \o name \o "::" \o r.path \o "::" \o Sha8(r.commit)
      [] r.source_type = "release" -> "release::" \o name \o "::" \o r.version

\* the name of the repository of a record (None for a docs record)
RepoNameOf(r) ==
    IF r.repo = None THEN None
    ELSE CHOOSE name \in {RepoA, RepoB} : r.repo = Org \o "/" \o name

\* C27: the records of a parent document that yields n chunks are n
\* consecutive records with chunk_index 0, 1, ..., n-1 in emission order,
\* each with chunk_count n and the id suffix chunk-(chunk_index+1).
C27_ChunkOrdinals ==
    \A i \in RecIdx :
        LET r == records[i]
            first == i - r.chunk_index
        IN  /\ r.chunk_count >= 1
            /\ r.chunk_index \in 0..(r.chunk_count - 1)
            /\ r.id = IdStem(r, RepoNameOf(r)) \o "::chunk-" \o ToString(r.chunk_index + 1)
            /\ first >= 1
            /\ first + r.chunk_count - 1 <= Len(records)
            /\ \A j \in first..(first + r.chunk_count - 1) :
                  /\ records[j].chunk_index = j - first
                  /\ records[j].chunk_count = r.chunk_count
                  /\ Locator(records[j]) = Locator(r)

\* C27 witness: a finished run whose records hold a docs page, a repository
\* file and a release of two or more chunks each
C27_Witness ==
    /\ bpc = "done"
    /\ \A t \in {"docs", "repo", "release"} :
          \E i \in RecIdx :
              /\ records[i].source_type = t
              /\ records[i].chunk_count >= 2
              /\ records[i].chunk_index = records[i].chunk_count - 1

----------------------------------------------------------------------------
(* Claims about the repository loop, checked under SpecRepo *)

\* the raw file of path p of repository name has been requested
RawRequested(name, p) ==
    \E k \in 1..Len(raw_requested) :
        raw_requested[k].repo = name /\ raw_requested[k].path = p

\* glob g covers the whole of path s: "**" stands for any sequence of
\* characters (newlines too when nl is set), "*" for any sequence without a
\* slash, any other character for itself
RECURSIVE GlobCovers(_, _, _)
GlobCovers(g, s, nl) ==
    IF g = <<>> THEN s = <<>>
    ELSE IF Len(g) >= 2 /\ g[1] = "*" /\ g[2] = "*"
         THEN \E k \in 0..Len(s) :
                  /\ nl \/ \A j \in 1..k : s[j] # NL
                  /\ GlobCovers(SubSeq(g, 3, Len(g)), SubSeq(s, k + 1, Len(s)), nl)
    ELSE IF g[1] = "*"
         THEN \E k \in 0..Len(s) :
                  /\ \A j \in 1..k : s[j] # "/"
                  /\ GlobCovers(Tail(g), SubSeq(s, k + 1, Len(s)), nl)
    ELSE s # <<>> /\ s[1] = g[1] /\ GlobCovers(Tail(g), Tail(s), nl)

\* the filter of the claim on a tree entry: a blob whose extension (ext) is in
\* the include set or the set is empty, whose recorded size does not exceed
\* the ceiling, and whose path no exclude glob covers
Selected(node, ext, nl) ==
    /\ node.type = "blob"
    /\ cfg.github.include_exts = {} \/ ext \in cfg.github.include_exts
    /\ "size" \in DOMAIN node => node.size <= MaxBytes
    /\ \A k \in 1..Len(cfg.github.exclude_path_globs) :
          ~GlobCovers(cfg.github.exclude_path_globs[k], node.path, nl)

\* the entries of the tree at hand the loop has been through
Processed == IF ing = NoIngest THEN {} ELSE {ing.tree[j] : j \in 1..(ing.i - 1)}

\* C28 as stated: an entry's raw content is fetched iff it is a blob, its
\* extension is in the include set (or the set is empty), its size does not
\* exceed the ceiling and no exclude glob matches its whole path, "**"
\* matching any character sequence.
C28_FileFilterOriginal ==
    \A node \in Processed :
        RawRequested(Head(names), node.path) <=> Selected(node, SplitExt(node.path), TRUE)

\* C28 amended: the extension is compared in lower case, and "**" matches
\* any sequence of characters other than a newline.
C28_FileFilter ==
    \A node \in Processed :
        RawRequested(Head(names), node.path)
            <=> Selected(node, Lower(SplitExt(node.path)), FALSE)

\* C28 witness: a whole tree has been gone through under include extensions
\* and exclude globs; the upper-case README was fetched, a markdown file
\* under an excluded directory and a file of another extension were not
C28_Witness ==
    /\ ing # NoIngest
    /\ Head(names) = RepoB
    /\ ing.i > Len(ing.tree)
    /\ ~remote.null_entry
    /\ cfg.github.include_exts # {}
    /\ cfg.github.exclude_path_globs # <<>>
    /\ RawRequested(RepoB, <<"R", ".", "M", "D">>)
    /\ ~RawRequested(RepoB, <<"s", "/", "t", ".", "m", "d">>)
    /\ ~RawRequested(RepoB, <<"b", ".", "b", "i", "n">>)
    /\ RawRequested(RepoB, <<"s", "/", NL, ".", "m", "d">>)

\* C26: an exception while a repository is ingested is caught: the records
\* appended so far stay as they are, the run is not aborted, and the loop goes
\* on with the next name of the list.
C26_FailureIsolated ==
    [][/\ IsPrefix(records, records')
       /\ abort' = None
       /\ bpc' = "repos"
       /\ names' = names \/ names' = Tail(names)
       /\ stderr' # stderr =>
             /\ records' = records
             /\ names' = Tail(names)
             /\ ing' = NoIngest]_vars

\* C26 witness: the tree of the first repository raised at its null entry
\* after a file was recorded; the docs record and that file's records are
\* still there and the second repository has been ingested after them
C26_Witness ==
    /\ remote.null_entry
    /\ names = <<>>
    /\ \E k \in 1..Len(stderr) : stderr[k].about = RepoB
    /\ records # <<>>
    /\ records[1].source_type = "docs"
    /\ \E i, j \in RecIdx :
          /\ i < j
          /\ records[i].repo = Org \o "/" \o RepoB
          /\ records[j].repo = Org \o "/" \o RepoA

\* C30: the content of a repo record is the content of its path at the commit
\* the record names, also when the default branch advances between the
\* resolution of the SHA and the fetch of the file.
C30_ContentAtCommit ==
    \A i \in RecIdx :
        records[i].source_type = "repo" =>
            \E j \in 1..Len(TreeAt(RepoB)) :
                LET node == TreeAt(RepoB)[j]
                    cs == ChunksOf(clean_text(ContentAt(records[i].commit, node.path)),
                                   cfg.chunking.code_target_chars)
                IN  /\ ~IsNull(node)
                    /\ records[i].path = StrOf(node.path)
                    /\ records[i].chunk_count = Len(cs)
                    /\ records[i].content = cs[records[i].chunk_index + 1]

====
